---- MODULE Spec2Model ----
(***************************************************************************)
(* Verification model of the hyperlocal flyer pipeline:                    *)
(*   backend/hyperlocal/pipeline.py            FlyerPipeline               *)
(*   backend/hyperlocal/comfyui_flyer_pipeline.py  ComfyFlyerPipeline      *)
(*   backend/hyperlocal/openai_helpers.py      chat_json, _parse_json_like *)
(*   backend/hyperlocal/qc.py                  validate_text               *)
(*   hyperlocal/persistence.py                 PersistenceManager          *)
(*                                                                         *)
(* Texts are sequences of one-character strings.  Optional values are      *)
(* sequences of length 0 (None) or 1 (the value).                          *)
(***************************************************************************)
EXTENDS Integers, Sequences, FiniteSets, TLC

\* ------------------------------------------------------------------------
\* Bounds of the model
\* ------------------------------------------------------------------------
\* largest configured HYPERLOCAL_VARIANTS explored (0..MaxVariants)
MaxVariants == 2
\* largest configured HYPERLOCAL_MAX_IMAGE_ATTEMPTS explored (0..MaxAttempts)
MaxAttempts == 2

\* ------------------------------------------------------------------------
\* Texts
\* ------------------------------------------------------------------------
None == <<>>
Some(x) == <<x>>
IsNone(o) == Len(o) = 0
OrElse(o, d) == IF Len(o) = 0 THEN d ELSE o[1]

EmptyText == <<>>

Whitespace == {" ", "\n", "\t"}
IsSpace(c) == c \in Whitespace

SetMin(S) == CHOOSE x \in S : \A y \in S : x <= y
SetMax(S) == CHOOSE x \in S : \A y \in S : x >= y

\* str.strip()
strip(t) ==
    LET keep == {i \in 1..Len(t) : ~IsSpace(t[i])}
    IN IF keep = {} THEN <<>> ELSE SubSeq(t, SetMin(keep), SetMax(keep))

\* str.rstrip()
rstrip(t) ==
    LET keep == {i \in 1..Len(t) : ~IsSpace(t[i])}
    IN IF keep = {} THEN <<>> ELSE SubSeq(t, 1, SetMax(keep))

\* t[:n]
Prefix(t, n) == SubSeq(t, 1, IF n < Len(t) THEN n ELSE Len(t))

\* len([w for w in text.strip().split() if w])
word_count(t) ==
    Cardinality({i \in 1..Len(t) : ~IsSpace(t[i]) /\ (i = 1 \/ IsSpace(t[i - 1]))})

\* a word of n letters c
Word(c, n) == [i \in 1..n |-> c]

RECURSIVE Words(_, _, _)
\* k words of n letters c, separated by single blanks
Words(c, k, n) ==
    IF k = 0 THEN <<>>
    ELSE IF k = 1 THEN Word(c, n)
    ELSE Words(c, k - 1, n) \o <<" ">> \o Word(c, n)

RECURSIVE JoinTexts(_)
\* " ".join(texts)
JoinTexts(ts) ==
    IF Len(ts) = 0 THEN <<>>
    ELSE IF Len(ts) = 1 THEN ts[1]
    ELSE ts[1] \o <<" ">> \o JoinTexts(Tail(ts))

\* ------------------------------------------------------------------------
\* schemas.CopyVariant
\* ------------------------------------------------------------------------
CopyVariant(h, s, b, c, d) ==
    [headline |-> h, subhead |-> s, body |-> b, cta |-> c, disclaimer |-> d]

\* variant of within_constraints: the disclaimer too must have a word
within_constraints_disclaimerRequired(variant) ==
    /\ 1 <= word_count(variant.headline) /\ word_count(variant.headline) <= 6
    /\ 1 <= word_count(variant.subhead) /\ word_count(variant.subhead) <= 10
    /\ 1 <= word_count(variant.body) /\ word_count(variant.body) <= 28
    /\ 1 <= word_count(variant.cta) /\ word_count(variant.cta) <= 4
    /\ 1 <= word_count(OrElse(variant.disclaimer, EmptyText))
    /\ word_count(OrElse(variant.disclaimer, EmptyText)) <= 12

\* FlyerPipeline._within_constraints
within_constraints(variant) ==
    /\ 1 <= word_count(variant.headline) /\ word_count(variant.headline) <= 6
    /\ 1 <= word_count(variant.subhead) /\ word_count(variant.subhead) <= 10
    /\ 1 <= word_count(variant.body) /\ word_count(variant.body) <= 28
    /\ 1 <= word_count(variant.cta) /\ word_count(variant.cta) <= 4
    /\ word_count(OrElse(variant.disclaimer, EmptyText)) <= 12

\* ------------------------------------------------------------------------
\* qc.py
\* ------------------------------------------------------------------------
UpperLetters == <<"A", "B", "C", "D", "E", "F", "G", "H", "I", "J", "K", "L", "M",
                  "N", "O", "P", "Q", "R", "S", "T", "U", "V", "W", "X", "Y", "Z">>
LowerLetters == <<"a", "b", "c", "d", "e", "f", "g", "h", "i", "j", "k", "l", "m",
                  "n", "o", "p", "q", "r", "s", "t", "u", "v", "w", "x", "y", "z">>
Digits == {"0", "1", "2", "3", "4", "5", "6", "7", "8", "9"}

\* str.lower() on one character
lower(c) ==
    IF \E i \in 1..26 : UpperLetters[i] = c
    THEN LowerLetters[CHOOSE i \in 1..26 : UpperLetters[i] = c]
    ELSE c

\* [a-z0-9\s]
KeptByNormalize(c) ==
    \/ \E i \in 1..26 : LowerLetters[i] = c
    \/ c \in Digits
    \/ c \in Whitespace

RECURSIVE CollapseWs(_, _)
\* re.sub(r"\s+", " ", text): every run of whitespace becomes one blank
CollapseWs(t, prevWs) ==
    IF Len(t) = 0 THEN <<>>
    ELSE IF t[1] \in Whitespace
         THEN (IF prevWs THEN <<>> ELSE <<" ">>) \o CollapseWs(Tail(t), TRUE)
         ELSE <<t[1]>> \o CollapseWs(Tail(t), FALSE)

\* qc._normalize
normalize(text) ==
    LET lowered == [i \in 1..Len(text) |-> lower(text[i])]
        cleaned == [i \in 1..Len(text) |->
                       IF KeptByNormalize(lowered[i]) THEN lowered[i] ELSE " "]
    IN strip(CollapseWs(cleaned, FALSE))

\* needle in haystack
IsSubstring(needle, haystack) ==
    \/ Len(needle) = 0
    \/ \E i \in 1..(Len(haystack) - Len(needle) + 1) :
          \A d \in 1..Len(needle) : haystack[i + d - 1] = needle[d]

\* length of the common run of a from i and b from j, inside a[..ahi], b[..bhi]
RunLen(a, b, i, j, ahi, bhi) ==
    LET m == IF ahi - i < bhi - j THEN ahi - i + 1 ELSE bhi - j + 1
    IN SetMax({k \in 0..m : \A d \in 0..(k - 1) : a[i + d] = b[j + d]})

\* difflib.SequenceMatcher.find_longest_match on a[alo..ahi], b[blo..bhi]
\* (inclusive, 1-based): the longest block, earliest in a, then earliest in b
find_longest_match(a, b, alo, ahi, blo, bhi) ==
    LET cand == {<<i, j>> \in (alo..ahi) \X (blo..bhi) : TRUE}
        best == IF cand = {} THEN 0
                ELSE SetMax({RunLen(a, b, p[1], p[2], ahi, bhi) : p \in cand})
    IN IF best = 0 THEN [i |-> alo, j |-> blo, size |-> 0]
       ELSE LET bi == SetMin({p[1] : p \in {q \in cand :
                                 RunLen(a, b, q[1], q[2], ahi, bhi) = best}})
                bj == SetMin({p[2] : p \in {q \in cand :
                                 q[1] = bi /\ RunLen(a, b, q[1], q[2], ahi, bhi) = best}})
            IN [i |-> bi, j |-> bj, size |-> best]

RECURSIVE MatchTotal(_, _, _, _, _, _)
\* sum of the sizes of SequenceMatcher.get_matching_blocks()
MatchTotal(a, b, alo, ahi, blo, bhi) ==
    IF alo > ahi \/ blo > bhi THEN 0
    ELSE LET m == find_longest_match(a, b, alo, ahi, blo, bhi)
         IN IF m.size = 0 THEN 0
            ELSE m.size
                 + MatchTotal(a, b, alo, m.i - 1, blo, m.j - 1)
                 + MatchTotal(a, b, m.i + m.size, ahi, m.j + m.size, bhi)

\* SequenceMatcher(None, needle, haystack).ratio() >= 0.75, i.e. 2M/T >= 3/4
RatioAtLeastThreshold(needle, haystack) ==
    LET total == Len(needle) + Len(haystack)
        m == MatchTotal(needle, haystack, 1, Len(needle), 1, Len(haystack))
    IN IF total = 0 THEN TRUE ELSE 8 * m >= 3 * total

\* qc._phrase_match
phrase_match(needle, haystack) ==
    \/ Len(needle) = 0
    \/ IsSubstring(needle, haystack)
    \/ RatioAtLeastThreshold(needle, haystack)

\* variant of validate_text: one matching phrase is enough
validate_text_anyPhrase(expected_phrases, ocr_text) ==
    LET normalized_ocr == normalize(ocr_text)
    IN \E p \in 1..Len(expected_phrases) :
          LET normalized_phrase == normalize(expected_phrases[p])
          IN \/ Len(normalized_phrase) = 0
             \/ IsSubstring(normalized_phrase, normalized_ocr)
             \/ phrase_match(normalized_phrase, normalized_ocr)

\* qc.validate_text
validate_text(expected_phrases, ocr_text) ==
    LET normalized_ocr == normalize(ocr_text)
    IN \A p \in 1..Len(expected_phrases) :
          LET normalized_phrase == normalize(expected_phrases[p])
          IN \/ Len(normalized_phrase) = 0
             \/ IsSubstring(normalized_phrase, normalized_ocr)
             \/ phrase_match(normalized_phrase, normalized_ocr)

\* ------------------------------------------------------------------------
\* openai_helpers.py: model replies and chat_json
\* ------------------------------------------------------------------------
\* A JSON value, as far as the pipeline inspects it:
\*   t = "list"   items: its elements
\*   t = "dict"   key = "variants" / "copy_variants": an envelope whose content
\*                is the list items (inner = "list") or no list (inner = "scalar");
\*                key = "object": a plain object, obj its fields
\*   t = "scalar" a number or a string
\* An element or object is k = "obj" (all CopyVariant keys present, v the
\* variant), k = "badobj" (an object CopyVariant(**item) rejects) or k = "str".
NoVariant == CopyVariant(<<>>, <<>>, <<>>, <<>>, None)
Obj(v) == [k |-> "obj", v |-> v]
BadObj == [k |-> "badobj", v |-> NoVariant]
Str == [k |-> "str", v |-> NoVariant]

JList(items) == [t |-> "list", key |-> "", inner |-> "", items |-> items, obj |-> BadObj]
JEnvelope(key, items) ==
    [t |-> "dict", key |-> key, inner |-> "list", items |-> items, obj |-> BadObj]
JEnvelopeScalar(key) ==
    [t |-> "dict", key |-> key, inner |-> "scalar", items |-> <<>>, obj |-> BadObj]
JObject(o) == [t |-> "dict", key |-> "object", inner |-> "", items |-> <<>>, obj |-> o]
JScalar == [t |-> "scalar", key |-> "", inner |-> "", items |-> <<>>, obj |-> BadObj]

\* The text of a model reply: kind says how the value is written.
\*   "json"   plain JSON                "fenced"  JSON inside ``` fences
\*   "prose"  JSON followed by prose    "pyrepr"  single-quoted pseudo-JSON
\*   "null"   the JSON value null       "garbage" nothing parseable
Content(kind, value) == [kind |-> kind, value |-> value]
Garbage == Content("garbage", JScalar)
NullReply == Content("null", JScalar)

\* openai_helpers._parse_json_like: Some(value), or None
parse_json_like(content) ==
    IF content.kind \in {"json", "fenced", "prose", "pyrepr"}
    THEN Some(content.value)
    ELSE None

JSONDecodeMessage == "Failed to parse JSON from model output: line 1 column 1 (char 0)"

\* no reply text
NoDoc == Content("", JScalar)

\* variant of chat_json: a first reply that is the JSON value null is returned
chat_json_nullReturned(first, repaired) ==
    LET parsed == parse_json_like(first)
    IN IF ~IsNone(parsed) \/ first.kind = "null"
       THEN [ok |-> TRUE, value |-> first.value, calls |-> 1, error |-> "", doc |-> NoDoc]
       ELSE LET parsed2 == parse_json_like(repaired)
            IN IF ~IsNone(parsed2)
               THEN [ok |-> TRUE, value |-> parsed2[1], calls |-> 2, error |-> "",
                     doc |-> NoDoc]
               ELSE [ok |-> FALSE, value |-> JScalar, calls |-> 2,
                     error |-> JSONDecodeMessage, doc |-> first]

\* variant of chat_json: the error raised carries the text of the repair reply
chat_json_docRepaired(first, repaired) ==
    LET parsed == parse_json_like(first)
    IN IF ~IsNone(parsed)
       THEN [ok |-> TRUE, value |-> parsed[1], calls |-> 1, error |-> "", doc |-> NoDoc]
       ELSE LET parsed2 == parse_json_like(repaired)
            IN IF ~IsNone(parsed2)
               THEN [ok |-> TRUE, value |-> parsed2[1], calls |-> 2, error |-> "",
                     doc |-> NoDoc]
               ELSE [ok |-> FALSE, value |-> JScalar, calls |-> 2,
                     error |-> JSONDecodeMessage, doc |-> repaired]

\* openai_helpers.chat_json, given the first reply and the reply to the
\* repair request: the value returned or the error raised with the text it
\* carries (JSONDecodeError.doc), and the number of model calls made
chat_json(first, repaired) ==
    LET parsed == parse_json_like(first)
    IN IF ~IsNone(parsed)
       THEN [ok |-> TRUE, value |-> parsed[1], calls |-> 1, error |-> "", doc |-> NoDoc]
       ELSE LET parsed2 == parse_json_like(repaired)
            IN IF ~IsNone(parsed2)
               THEN [ok |-> TRUE, value |-> parsed2[1], calls |-> 2, error |-> "",
                     doc |-> NoDoc]
               ELSE [ok |-> FALSE, value |-> JScalar, calls |-> 2,
                     error |-> JSONDecodeMessage, doc |-> first]

\* the replies the repair request of chat_json can get: it is made only when
\* the first reply does not parse
RepairReplies(first, contents) ==
    IF IsNone(parse_json_like(first)) THEN contents ELSE {Garbage}

\* ------------------------------------------------------------------------
\* pipeline.py: copy coercion, padding and the constraint enforcer
\* ------------------------------------------------------------------------
UnusableMessage == "Copy generation did not return usable JSON variants"
RepairArrayMessage == "Repair failed to produce a JSON array"
ExhaustedMessage == "Copy generation did not return expected variants after retries"
ValidationMessage == "1 validation error for CopyVariant"
NotMappingMessage == "CopyVariant() argument after ** must be a mapping"

Raised(msg, calls) == [ok |-> FALSE, variants |-> <<>>, calls |-> calls, error |-> msg]
Returned(vs, calls) == [ok |-> TRUE, variants |-> vs, calls |-> calls, error |-> ""]

AllOf(items, kinds) == \A i \in 1..Len(items) : items[i].k \in kinds

\* [CopyVariant(**item) for item in data]
ConstructAll(items, calls) ==
    IF \E i \in 1..Len(items) : items[i].k = "str"
    THEN Raised(NotMappingMessage, calls)
    ELSE IF \E i \in 1..Len(items) : items[i].k = "badobj"
    THEN Raised(ValidationMessage, calls)
    ELSE Returned([i \in 1..Len(items) |-> items[i].v], calls)

\* FlyerPipeline._repair_copy_variants, given the replies of its chat_json
repair_copy_variants(first, repaired) ==
    LET r == chat_json(first, repaired)
    IN IF ~r.ok THEN Raised(r.error, r.calls)
       ELSE IF r.value.t # "list" THEN Raised(RepairArrayMessage, r.calls)
       ELSE ConstructAll(r.value.items, r.calls)

\* _coerce_copy_variants, lines 190-195: data after the envelope is unwrapped
\* is a list
IsListAfterUnwrap(data) ==
    IF data.t = "dict" /\ data.key \in {"variants", "copy_variants"}
    THEN data.inner = "list"
    ELSE data.t = "list"

\* variant of coerce_copy_variants: a list that mixes strings and objects is
\* handed to the constructor
coerce_copy_variants_mixed(data, first, repaired) ==
    IF IsListAfterUnwrap(data) /\ AllOf(data.items, {"str"}) /\ Len(data.items) > 0
    THEN repair_copy_variants(first, repaired)
    ELSE IF IsListAfterUnwrap(data)
    THEN ConstructAll(data.items, 0)
    ELSE Raised(UnusableMessage, 0)

\* FlyerPipeline._coerce_copy_variants; first, repaired: the replies to the
\* repair request it makes for a list of strings
coerce_copy_variants(data, first, repaired) ==
    IF IsListAfterUnwrap(data) /\ AllOf(data.items, {"obj", "badobj"})
    THEN ConstructAll(data.items, 0)
    ELSE IF IsListAfterUnwrap(data) /\ AllOf(data.items, {"str"})
    THEN repair_copy_variants(first, repaired)
    ELSE Raised(UnusableMessage, 0)

\* the replies the string-list repair can get: it is requested only for a
\* parsed reply that is a non-empty list of strings
StringRepairFirst(r, contents) ==
    IF r.ok /\ IsListAfterUnwrap(r.value) /\ ~AllOf(r.value.items, {"obj", "badobj"})
       /\ AllOf(r.value.items, {"str"})
    THEN contents ELSE {Garbage}
StringRepairSecond(r, rfirst, contents) ==
    IF StringRepairFirst(r, contents) = {Garbage} THEN {Garbage}
    ELSE RepairReplies(rfirst, contents)

\* CopyVariant(**data) for the reply to a rewrite request
ConstructOne(data) ==
    IF data.t # "dict" THEN [ok |-> FALSE, v |-> NoVariant, error |-> NotMappingMessage]
    ELSE IF data.key = "object" /\ data.obj.k = "obj"
    THEN [ok |-> TRUE, v |-> data.obj.v, error |-> ""]
    ELSE [ok |-> FALSE, v |-> NoVariant, error |-> ValidationMessage]

\* variant of ensure_constraints: a rewrite that is still outside the
\* constraints is sent for another rewrite
ensure_constraints_again(variant, first, repaired) ==
    IF within_constraints(variant)
    THEN [ok |-> TRUE, v |-> variant, calls |-> 0, error |-> ""]
    ELSE LET r == chat_json(first, repaired)
         IN IF ~r.ok
            THEN [ok |-> FALSE, v |-> NoVariant, calls |-> r.calls, error |-> r.error]
            ELSE LET c == ConstructOne(r.value)
                 IN IF c.ok /\ ~within_constraints(c.v)
                    THEN [ok |-> c.ok, v |-> c.v, calls |-> r.calls + r.calls,
                          error |-> c.error]
                    ELSE [ok |-> c.ok, v |-> c.v, calls |-> r.calls, error |-> c.error]

\* FlyerPipeline._ensure_constraints, given the replies of its chat_json
ensure_constraints(variant, first, repaired) ==
    IF within_constraints(variant)
    THEN [ok |-> TRUE, v |-> variant, calls |-> 0, error |-> ""]
    ELSE LET r == chat_json(first, repaired)
         IN IF ~r.ok
            THEN [ok |-> FALSE, v |-> NoVariant, calls |-> r.calls, error |-> r.error]
            ELSE LET c == ConstructOne(r.value)
                 IN [ok |-> c.ok, v |-> c.v, calls |-> r.calls, error |-> c.error]

\* ------------------------------------------------------------------------
\* comfyui_flyer_pipeline.py: the overlay enforcer
\* ------------------------------------------------------------------------
\* max_chars
MaxCharsHeadline == 22
MaxCharsSubhead == 34
MaxCharsBody == 160
MaxCharsCta == 16
MaxCharsDisclaimer == 34

\* the marker appended by trunc: three characters in the source file
EllipsisMarker == <<"^", "~", "|">>

\* ComfyFlyerPipeline._ensure_overlay_fit: ok
overlay_ok(copy) ==
    /\ 1 <= word_count(copy.headline) /\ word_count(copy.headline) <= 6
    /\ 1 <= word_count(copy.subhead) /\ word_count(copy.subhead) <= 10
    /\ 1 <= word_count(copy.body) /\ word_count(copy.body) <= 32
    /\ 1 <= word_count(copy.cta) /\ word_count(copy.cta) <= 4
    /\ word_count(OrElse(copy.disclaimer, EmptyText)) <= 12
    /\ Len(copy.headline) <= MaxCharsHeadline
    /\ Len(copy.subhead) <= MaxCharsSubhead
    /\ Len(copy.body) <= MaxCharsBody
    /\ Len(copy.cta) <= MaxCharsCta
    /\ Len(OrElse(copy.disclaimer, EmptyText)) <= MaxCharsDisclaimer

\* variant of trunc: the cut text keeps its trailing whitespace
trunc_keepBlanks(text, limit) ==
    LET t == strip(text)
    IN IF Len(t) <= limit THEN t
       ELSE Prefix(t, IF limit - 1 > 0 THEN limit - 1 ELSE 0) \o EllipsisMarker

\* ComfyFlyerPipeline._ensure_overlay_fit: trunc
trunc(text, limit) ==
    LET t == strip(text)
    IN IF Len(t) <= limit THEN t
       ELSE rstrip(Prefix(t, IF limit - 1 > 0 THEN limit - 1 ELSE 0)) \o EllipsisMarker

\* x or None, for a text x
OrNone(t) == IF Len(t) = 0 THEN None ELSE Some(t)

\* ComfyFlyerPipeline._ensure_overlay_fit, given the replies of its chat_json
ensure_overlay_fit(copy, first, repaired) ==
    IF overlay_ok(copy)
    THEN [ok |-> TRUE, v |-> copy, calls |-> 0, error |-> ""]
    ELSE LET r == chat_json(first, repaired)
         IN IF ~r.ok
            THEN [ok |-> FALSE, v |-> NoVariant, calls |-> r.calls, error |-> r.error]
            ELSE LET c == ConstructOne(r.value)
                     rewritten == IF c.ok THEN c.v ELSE copy
                 IN [ok |-> TRUE,
                     v |-> CopyVariant(
                              trunc(rewritten.headline, MaxCharsHeadline),
                              trunc(rewritten.subhead, MaxCharsSubhead),
                              trunc(rewritten.body, MaxCharsBody),
                              trunc(rewritten.cta, MaxCharsCta),
                              OrNone(trunc(OrElse(rewritten.disclaimer, EmptyText),
                                           MaxCharsDisclaimer))),
                     calls |-> r.calls, error |-> ""]

\* ------------------------------------------------------------------------
\* pipeline.py: brand style
\* ------------------------------------------------------------------------
BrandStyle(p, k, l, t) ==
    [palette |-> p, style_keywords |-> k, layout_guidance |-> l,
     typography_guidance |-> t]

\* banned_tokens
banned_tokens == {
    <<"p", "e", "o", "p", "l", "e">>, <<"p", "e", "r", "s", "o", "n">>,
    <<"f", "a", "c", "e", "s">>, <<"f", "a", "c", "e">>,
    <<"h", "a", "n", "d", "s">>, <<"h", "u", "m", "a", "n">>,
    <<"p", "o", "r", "t", "r", "a", "i", "t">>}

\* str.lower()
lower_text(t) == [i \in 1..Len(t) |-> lower(t[i])]

RECURSIVE SplitOnDot(_, _)
\* text.split("."), cur the piece being read
SplitOnDot(t, cur) ==
    IF Len(t) = 0 THEN <<cur>>
    ELSE IF t[1] = "." THEN <<cur>> \o SplitOnDot(Tail(t), <<>>)
    ELSE SplitOnDot(Tail(t), Append(cur, t[1]))

RECURSIVE JoinWith(_, _)
\* sep.join(parts)
JoinWith(parts, sep) ==
    IF Len(parts) = 0 THEN <<>>
    ELSE IF Len(parts) = 1 THEN parts[1]
    ELSE parts[1] \o sep \o JoinWith(Tail(parts), sep)

\* variant of sanitize_brand_style: sentences are searched as written
sanitize_brand_style_caseSensitive(style) ==
    LET filtered_keywords ==
            SelectSeq(style.style_keywords, LAMBDA kw : lower_text(kw) \notin banned_tokens)
        pieces == SplitOnDot(style.layout_guidance, <<>>)
        stripped == [i \in 1..Len(pieces) |-> strip(pieces[i])]
        sentences == SelectSeq(stripped, LAMBDA x : Len(x) > 0)
        clean_sentences ==
            SelectSeq(sentences,
                      LAMBDA x : ~\E token \in banned_tokens : IsSubstring(token, x))
        joined == JoinWith(clean_sentences, <<".", " ">>)
        clean_layout == IF Len(joined) > 0 THEN joined \o <<".">> ELSE joined
    IN BrandStyle(style.palette, filtered_keywords, clean_layout,
                  style.typography_guidance)

\* FlyerPipeline._sanitize_brand_style
sanitize_brand_style(style) ==
    LET filtered_keywords ==
            SelectSeq(style.style_keywords, LAMBDA kw : lower_text(kw) \notin banned_tokens)
        pieces == SplitOnDot(style.layout_guidance, <<>>)
        stripped == [i \in 1..Len(pieces) |-> strip(pieces[i])]
        sentences == SelectSeq(stripped, LAMBDA x : Len(x) > 0)
        clean_sentences ==
            SelectSeq(sentences,
                      LAMBDA x : ~\E token \in banned_tokens :
                                     IsSubstring(token, lower_text(x)))
        joined == JoinWith(clean_sentences, <<".", " ">>)
        clean_layout == IF Len(joined) > 0 THEN joined \o <<".">> ELSE joined
    IN BrandStyle(style.palette, filtered_keywords, clean_layout,
                  style.typography_guidance)

\* BrandStyle(**data) for the reply to the style request: data is
\* [t, fields_ok, style]; every field of BrandStyle has a default
ConstructStyle(data) ==
    IF data.t # "dict" THEN [ok |-> FALSE, error |-> "BrandStyle() argument after ** must be a mapping"]
    ELSE IF ~data.fields_ok THEN [ok |-> FALSE, error |-> "1 validation error for BrandStyle"]
    ELSE [ok |-> TRUE, error |-> ""]

\* FlyerPipeline.build_brand_style (both _brand_style_from_images and
\* _brand_style_from_text make one chat_json request)
build_brand_style(first, repaired) ==
    LET r == chat_json(first, repaired)
    IN IF ~r.ok THEN [ok |-> FALSE, style |-> None, error |-> r.error]
       ELSE LET c == ConstructStyle(r.value)
            IN IF ~c.ok THEN [ok |-> FALSE, style |-> None, error |-> c.error]
               ELSE [ok |-> TRUE, style |-> Some(sanitize_brand_style(r.value.style)),
                     error |-> ""]

\* ------------------------------------------------------------------------
\* Inputs explored
\* ------------------------------------------------------------------------
\* Briefs: business_details with a name and an optional phone; the other
\* optional details are None and constraints is the empty list.
BriefA == [id |-> "A", name |-> <<"j", "o", "e">>, phone |-> Some(<<"5", "5", "5">>)]
BriefB == [id |-> "B", name |-> <<"S", "a", "m">>, phone |-> None]
Briefs == {BriefA, BriefB}

\* FlyerPipeline._required_details for these briefs
required_details(brief) ==
    IF IsNone(brief) THEN <<>>
    ELSE <<brief[1].name>> \o (IF IsNone(brief[1].phone) THEN <<>> ELSE <<brief[1].phone[1]>>)

\* copy variants the model may return
VA == CopyVariant(<<"a", "a">>, <<"b">>, <<"c">>, <<"g", "o">>, None)
VB == CopyVariant(Words("a", 7, 1), <<"b">>, <<"c">>, <<"g", "o">>, None)
VC == CopyVariant(<<"c", "c">>, <<"b">>, <<"c">>, <<"g", "o">>, Some(<<"t">>))

\* the first n objects of a reply to the copy request / to the padding request
PrimaryItems(n) == [i \in 1..n |-> Obj(IF i % 3 = 1 THEN VA ELSE IF i % 3 = 2 THEN VB ELSE VC)]
PaddingItems(n) == [i \in 1..n |-> Obj(IF i % 2 = 1 THEN VC ELSE VA)]

\* replies to a request for copy variants
ListValues(items(_)) ==
    {JList(items(n)) : n \in 0..(MaxVariants + 1)}
        \cup {JEnvelope("variants", items(1)), JEnvelope("copy_variants", items(1)),
              JEnvelopeScalar("variants"), JObject(Obj(VA)), JScalar,
              JList(<<Str>>), JList(<<Obj(VA), Str>>), JList(<<BadObj>>)}

Contents(values) == {Content("json", v) : v \in values} \cup {Garbage, NullReply}
CopyContents == Contents(ListValues(PrimaryItems))
PadContents == Contents(ListValues(PaddingItems))
\* replies to the request that converts a list of strings
RepairContents == Contents({JList(<<Obj(VC)>>), JList(<<Str>>), JObject(Obj(VA))})
\* replies to the rewrite request of the enforcer
RewriteContents ==
    Contents({JObject(Obj(VA)), JObject(Obj(VB)), JObject(BadObj), JList(<<Obj(VA)>>)})

StyleRaw ==
    BrandStyle(<<"red">>, << <<"P", "e", "o", "p", "l", "e">>, <<"b", "o", "l", "d">> >>,
               <<"B", "i", "g", " ", "f", "a", "c", "e", ".", " ", "A", "i", "r", "y", ".">>,
               <<"s", "a", "n", "s">>)
StyleValue(t, fields_ok) == [t |-> t, fields_ok |-> fields_ok, style |-> StyleRaw]
StyleContents ==
    {Content("json", StyleValue("dict", TRUE)), Content("json", StyleValue("dict", FALSE)),
     Content("json", StyleValue("list", TRUE)), Garbage}

\* ------------------------------------------------------------------------
\* hyperlocal/persistence.py: the persisted records
\* ------------------------------------------------------------------------
NULL == "<null>"
NoRunRecord == [exists |-> FALSE, status |-> "", error |-> NULL, brand_style_json |-> None]

\* PersistenceManager.create_run
create_run(status) ==
    [exists |-> TRUE, status |-> status, error |-> NULL, brand_style_json |-> None]

\* PersistenceManager.update_run_style
update_run_style(run, style) ==
    IF ~run.exists THEN run ELSE [run EXCEPT !.brand_style_json = Some(style)]

\* PersistenceManager.update_run_status
update_run_status(run, status, error) ==
    IF ~run.exists THEN run ELSE [run EXCEPT !.status = status, !.error = error]

\* PersistenceManager.create_variant: the new row
create_variant(run_id, variant_index, copy, prompt_text, negative) ==
    [run_id |-> run_id, variant_index |-> variant_index, copy_json |-> copy,
     prompt_text |-> prompt_text, negative_prompt |-> negative,
     image_url |-> None, qc_passed |-> FALSE, qc_text |-> None]

\* PersistenceManager.update_variant_image
update_variant_image(rows, variant_id, image_url) ==
    IF variant_id \notin DOMAIN rows THEN rows
    ELSE [rows EXCEPT ![variant_id].image_url = Some(image_url)]

\* PersistenceManager.update_variant_qc
update_variant_qc(rows, variant_id, passed, text) ==
    IF variant_id \notin DOMAIN rows THEN rows
    ELSE [rows EXCEPT ![variant_id].qc_passed = passed, ![variant_id].qc_text = Some(text)]

\* ------------------------------------------------------------------------
\* FlyerPipeline.run as a state machine
\* ------------------------------------------------------------------------
VARIABLES
    cfg,            \* RUNTIME_CONFIG and the collaborators built by __init__
    brief,          \* the brief passed to run
    pc,             \* position in run / generate_copy_variants / generate_images
    active_brief,   \* self._active_brief
    run_record,     \* run_record: None or Some(id)
    db_run,         \* the persisted run record
    status_writes,  \* the status values committed to the run record, in order
    writes,         \* the durable writes of the run, in order: the gateway
                    \* operations that committed and the manifest file
    db_variants,    \* the persisted variant records, by id
    style,          \* run: style
    cp,             \* the frame of generate_copy_variants: attempt (the iteration
                    \* of "for _ in range(3)"), variants, enforced (the list being
                    \* returned), last_outcome (how its latest request ended),
                    \* primary and extra (the lists coerced from the replies to
                    \* the primary and the padding request of this cycle)
    variants,       \* run: variants
    packages,       \* run: packages
    img,            \* the frame of generate_images: idx, attempt, qc_passed,
                    \* qc_text, variant_id, image_url, variants; image_written
                    \* (generate_image wrote the file at image_path), gen_calls
                    \* (the generate_image calls that returned for this package)
                    \* and ocr_seen (the texts extract_text returned for it)
    images,         \* run: images
    result,         \* run: result
    exc,            \* the exception in flight: message, raise site, attempt there
    caught,         \* the exception the except clause of run caught
    enf             \* a function applied on its own: its input and its result
                    \* (SpecEnforce, SpecTrunc, SpecChatJson, SpecQc, SpecShared)

runVars == <<cfg, brief, pc, active_brief, run_record, db_run, status_writes, writes,
             db_variants, style, cp, variants, packages, img, images, result,
             exc, caught>>
vars == <<runVars, enf>>

\* error messages of the collaborators
DbMessage == "database error"
ImageMessage == "image backend: request timed out"
OcrMessage == "vision backend error"
StorageMessage == "storage upload failed"
FsMessage == "filesystem error"

QcDisabledText == <<"q", "c", " ", "d", "i", "s", "a", "b", "l", "e", "d">>

RunId == 1

\* self.persistence is set
Persistence == cfg.persistence
\* target_count
target_count == IF cfg.variants > 1 THEN cfg.variants ELSE 1

Configs ==
    [persistence : BOOLEAN, storage : BOOLEAN, qc_enabled : BOOLEAN,
     max_image_attempts : (0 - 1)..MaxAttempts, variants : 0..MaxVariants]

EnfIdle == [phase |-> "off"]

Exc(msg, site, at) == [msg |-> msg, site |-> site, at |-> at]
NoExc == Exc("", "", 0)

\* one durable write: the gateway operation (or "manifest"), the index of the
\* variant it is about (0 for the run) and the status it sets
Write(op, index, status) == [op |-> op, index |-> index, status |-> status]

\* a frame that is not active
CopyIdle ==
    [attempt |-> 0, variants |-> <<>>, enforced |-> <<>>, last_outcome |-> "",
     primary |-> <<>>, extra |-> <<>>]
ImgIdle ==
    [idx |-> 0, attempt |-> 0, qc_passed |-> FALSE, qc_text |-> EmptyText,
     variant_id |-> None, image_url |-> None, image_written |-> FALSE,
     gen_calls |-> 0, ocr_seen |-> <<>>, variants |-> <<>>]

RunInit ==
    /\ cfg \in Configs
    /\ brief \in Briefs
    /\ pc = "idle"
    /\ active_brief = None
    /\ run_record = None
    /\ db_run = NoRunRecord
    /\ status_writes = <<>>
    /\ writes = <<>>
    /\ db_variants = <<>>
    /\ style = None
    /\ cp = CopyIdle
    /\ variants = <<>>
    /\ packages = <<>>
    /\ img = ImgIdle
    /\ images = <<>>
    /\ result = None
    /\ exc = NoExc
    /\ caught = NoExc

Init == RunInit /\ enf = EnfIdle

\* an exception raised inside the try block of run: the frames of
\* generate_copy_variants and generate_images are unwound and control goes
\* to the except clause
Raise(msg, site, at) ==
    /\ exc' = Exc(msg, site, at)
    /\ caught' = Exc(msg, site, at)
    /\ pc' = "except"
    /\ cp' = CopyIdle
    /\ img' = ImgIdle

NoRaise == UNCHANGED <<exc, caught>>

HasRunId == Persistence /\ ~IsNone(run_record)

\* run, lines 301-309: set the active brief and create the run record
RunStart ==
    /\ pc = "idle"
    /\ active_brief' = Some(brief)
    /\ \/ /\ Persistence
          /\ db_run' = create_run("RUNNING")
          /\ run_record' = Some(RunId)
          /\ status_writes' = Append(status_writes, "RUNNING")
          /\ writes' = Append(writes, Write("create_run", 0, "RUNNING"))
          /\ pc' = "build_style"
          /\ NoRaise
       \/ /\ Persistence
          \* create_run raises before the try block is entered
          /\ exc' = Exc(DbMessage, "create_run", 0)
          /\ UNCHANGED caught
          /\ pc' = "raised"
          /\ UNCHANGED <<db_run, run_record, status_writes, writes>>
       \/ /\ ~Persistence
          /\ pc' = "build_style"
          /\ NoRaise
          /\ UNCHANGED <<db_run, run_record, status_writes, writes>>
    /\ UNCHANGED <<cfg, brief, db_variants, style, cp, variants, packages, img,
                   images, result, enf>>

\* run, line 311
BuildBrandStyle ==
    /\ pc = "build_style"
    /\ \E first \in StyleContents : \E repaired \in RepairReplies(first, StyleContents) :
          LET r == build_brand_style(first, repaired)
          IN IF r.ok
             THEN /\ style' = r.style
                  /\ pc' = IF HasRunId THEN "update_style" ELSE "copy_request"
                  /\ cp' = IF HasRunId THEN cp ELSE [CopyIdle EXCEPT !.attempt = 1]
                  /\ UNCHANGED img
                  /\ NoRaise
             ELSE /\ Raise(r.error, "style", 0)
                  /\ UNCHANGED style
    /\ UNCHANGED <<cfg, brief, active_brief, run_record, db_run, status_writes, writes,
                   db_variants, variants, packages, images, result, enf>>

\* run, lines 312-313
UpdateRunStyle ==
    /\ pc = "update_style"
    /\ \/ /\ db_run' = update_run_style(db_run, style[1])
          /\ writes' = Append(writes, Write("update_run_style", 0, ""))
          /\ pc' = "copy_request"
          /\ cp' = [CopyIdle EXCEPT !.attempt = 1]
          /\ UNCHANGED img
          /\ NoRaise
       \/ /\ Raise(DbMessage, "update_style", 0)
          /\ UNCHANGED <<db_run, writes>>
    /\ UNCHANGED <<cfg, brief, active_brief, run_record, status_writes, db_variants,
                   style, variants, packages, images, result, enf>>

\* variant of trimmed: the slice to target_count is left out
trimmed_untrimmed(vs, target) == vs

\* generate_copy_variants, line 119: variants[:target_count]
trimmed(vs, target) == Prefix(vs, target)

\* variant of pad_variants: the padding variants are put in front
pad_variants_prepend(vs, target, first, repaired, rfirst, rrepaired) ==
    LET needed == target - Len(vs)
    IN IF needed <= 0 THEN Returned(vs, 0)
       ELSE LET r == chat_json(first, repaired)
            IN IF ~r.ok THEN Raised(r.error, r.calls)
               ELSE LET extra == coerce_copy_variants(r.value, rfirst, rrepaired)
                    IN IF ~extra.ok THEN Raised(extra.error, r.calls + extra.calls)
                       ELSE Returned(Prefix(extra.variants \o vs, target),
                                     r.calls + extra.calls)

\* FlyerPipeline._pad_variants, given the replies of its chat_json and of
\* the repair request _coerce_copy_variants may make
pad_variants(vs, target, first, repaired, rfirst, rrepaired) ==
    LET needed == target - Len(vs)
    IN IF needed <= 0 THEN Returned(vs, 0)
       ELSE LET r == chat_json(first, repaired)
            IN IF ~r.ok THEN Raised(r.error, r.calls)
               ELSE LET extra == coerce_copy_variants(r.value, rfirst, rrepaired)
                    IN IF ~extra.ok THEN Raised(extra.error, r.calls + extra.calls)
                       ELSE Returned(Prefix(vs \o extra.variants, target),
                                     r.calls + extra.calls)

copyFrame ==
    UNCHANGED <<cfg, brief, active_brief, run_record, db_run, status_writes, writes,
                db_variants, style, packages, images, result, enf>>

\* how one copy request ended: the reply did not parse ("malformed"), had no
\* usable shape ("unusable"), held an object that is no CopyVariant
\* ("invalid"), or gave a list that is "short", "exact" or "over" the target
RequestOutcome(ok, error, n, target) ==
    IF ~ok
    THEN (IF error = JSONDecodeMessage THEN "malformed"
          ELSE IF error \in {UnusableMessage, RepairArrayMessage} THEN "unusable"
          ELSE "invalid")
    ELSE IF n = target THEN "exact" ELSE IF n > target THEN "over" ELSE "short"

\* variant of CopyRequest: a reply that cannot be used does not raise, the
\* next cycle is started instead
CopyRequest_retrying ==
    /\ pc = "copy_request"
    /\ \E first \in CopyContents : \E repaired \in RepairReplies(first, CopyContents) :
       \E rfirst \in StringRepairFirst(chat_json(first, repaired), RepairContents) :
       \E rrepaired \in StringRepairSecond(chat_json(first, repaired), rfirst, RepairContents) :
          LET r == chat_json(first, repaired)
              c == coerce_copy_variants(r.value, rfirst, rrepaired)
              ok == r.ok /\ c.ok
              error == IF ~r.ok THEN r.error ELSE c.error
              n == IF ok THEN Len(c.variants) ELSE 0
              outcome == RequestOutcome(ok, error, n, target_count)
          IN IF ~ok /\ cp.attempt < 3
             THEN /\ cp' = [cp EXCEPT !.last_outcome = outcome, !.attempt = cp.attempt + 1]
                  /\ pc' = "copy_request"
                  /\ UNCHANGED img
                  /\ NoRaise
             ELSE IF ~ok
             THEN Raise(ExhaustedMessage, "copy", cp.attempt)
             ELSE /\ cp' = [cp EXCEPT !.last_outcome = outcome,
                                      !.variants = IF n > target_count
                                                   THEN trimmed(c.variants, target_count)
                                                   ELSE c.variants]
                  /\ pc' = IF n >= target_count THEN "enforce" ELSE "pad"
                  /\ UNCHANGED img
                  /\ NoRaise
    /\ UNCHANGED variants
    /\ copyFrame

\* variant of CopyRequest: the variants of the cycle before are kept and the
\* new reply is added to them
CopyRequest_keeping ==
    /\ pc = "copy_request"
    /\ \E first \in CopyContents : \E repaired \in RepairReplies(first, CopyContents) :
       \E rfirst \in StringRepairFirst(chat_json(first, repaired), RepairContents) :
       \E rrepaired \in StringRepairSecond(chat_json(first, repaired), rfirst, RepairContents) :
          LET r == chat_json(first, repaired)
              c == coerce_copy_variants(r.value, rfirst, rrepaired)
              ok == r.ok /\ c.ok
              error == IF ~r.ok THEN r.error ELSE c.error
              kept == IF ok THEN cp.variants \o c.variants ELSE <<>>
              n == Len(kept)
              outcome == RequestOutcome(ok, error, n, target_count)
          IN IF ~ok
             THEN Raise(error, "copy", cp.attempt)
             ELSE /\ cp' = [cp EXCEPT !.last_outcome = outcome,
                                      !.primary = c.variants,
                                      !.extra = <<>>,
                                      !.variants = IF n > target_count
                                                   THEN trimmed(kept, target_count)
                                                   ELSE kept]
                  /\ pc' = IF n >= target_count THEN "enforce" ELSE "pad"
                  /\ UNCHANGED img
                  /\ NoRaise
    /\ UNCHANGED variants
    /\ copyFrame

\* generate_copy_variants, lines 109-120: one primary request of a cycle
CopyRequest ==
    /\ pc = "copy_request"
    /\ \E first \in CopyContents : \E repaired \in RepairReplies(first, CopyContents) :
       \E rfirst \in StringRepairFirst(chat_json(first, repaired), RepairContents) :
       \E rrepaired \in StringRepairSecond(chat_json(first, repaired), rfirst, RepairContents) :
          LET r == chat_json(first, repaired)
              c == coerce_copy_variants(r.value, rfirst, rrepaired)
              ok == r.ok /\ c.ok
              error == IF ~r.ok THEN r.error ELSE c.error
              n == IF ok THEN Len(c.variants) ELSE 0
              outcome == RequestOutcome(ok, error, n, target_count)
          IN IF ~ok
             THEN Raise(error, "copy", cp.attempt)
             ELSE /\ cp' = [cp EXCEPT !.last_outcome = outcome,
                                      !.primary = c.variants,
                                      !.extra = <<>>,
                                      !.variants = IF n > target_count
                                                   THEN trimmed(c.variants, target_count)
                                                   ELSE c.variants]
                  /\ pc' = IF n >= target_count THEN "enforce" ELSE "pad"
                  /\ UNCHANGED img
                  /\ NoRaise
    /\ UNCHANGED variants
    /\ copyFrame

\* generate_copy_variants, lines 121-124: the padding request of a cycle,
\* then the next cycle or the final raise
PadRequest ==
    /\ pc = "pad"
    /\ \E first \in PadContents : \E repaired \in RepairReplies(first, PadContents) :
       \E rfirst \in StringRepairFirst(chat_json(first, repaired), RepairContents) :
       \E rrepaired \in StringRepairSecond(chat_json(first, repaired), rfirst, RepairContents) :
          LET r == pad_variants(cp.variants, target_count, first, repaired, rfirst, rrepaired)
              outcome == RequestOutcome(r.ok, r.error, Len(r.variants), target_count)
              extra == coerce_copy_variants(chat_json(first, repaired).value,
                                            rfirst, rrepaired).variants
          IN IF ~r.ok
             THEN Raise(r.error, "copy", cp.attempt)
             ELSE IF Len(r.variants) = target_count
             THEN /\ cp' = [cp EXCEPT !.last_outcome = outcome, !.variants = r.variants,
                                      !.extra = extra]
                  /\ pc' = "enforce"
                  /\ UNCHANGED img
                  /\ NoRaise
             ELSE IF cp.attempt < 3
             THEN /\ cp' = [cp EXCEPT !.last_outcome = outcome, !.variants = r.variants,
                                      !.extra = extra, !.attempt = cp.attempt + 1]
                  /\ pc' = "copy_request"
                  /\ UNCHANGED img
                  /\ NoRaise
             ELSE Raise(ExhaustedMessage, "copy", cp.attempt)
    /\ UNCHANGED variants
    /\ copyFrame

\* generate_copy_variants, lines 117/120/123: _ensure_constraints on the next
\* variant of the list being returned; after the last one the list is
\* returned to run (line 314)
Enforce ==
    /\ pc = "enforce"
    /\ Len(cp.enforced) < Len(cp.variants)
    /\ \E first \in (IF within_constraints(cp.variants[Len(cp.enforced) + 1])
                     THEN {Garbage} ELSE RewriteContents) :
       \E repaired \in RepairReplies(first, RewriteContents) :
          LET r == ensure_constraints(cp.variants[Len(cp.enforced) + 1], first, repaired)
          IN IF ~r.ok
             THEN Raise(r.error, "copy", cp.attempt) /\ UNCHANGED variants
             ELSE IF Len(cp.enforced) + 1 < Len(cp.variants)
             THEN /\ cp' = [cp EXCEPT !.enforced = Append(cp.enforced, r.v)]
                  /\ pc' = "enforce"
                  /\ UNCHANGED <<variants, img>>
                  /\ NoRaise
             ELSE /\ variants' = Append(cp.enforced, r.v)
                  /\ cp' = CopyIdle
                  /\ pc' = "packages"
                  /\ UNCHANGED img
                  /\ NoRaise
    /\ copyFrame

\* prompt_templates.image_prompt: background_prompt reads the brief and the
\* style, not the copy
image_prompt(b, st, variant) == [brief |-> b.id, style |-> st]

NegativePrompt == "Avoid any text, letters, words, or signage."

\* schemas.PromptPackage
PromptPackage(ip, np, cv) == [image_prompt |-> ip, negative_prompt |-> np, copy_variant |-> cv]

\* variant of build_prompt_packages: the packages come in reverse order
build_prompt_packages_reversed(b, st, vs) ==
    [i \in 1..Len(vs) |->
        PromptPackage(image_prompt(b, st, vs[Len(vs) + 1 - i]), NegativePrompt,
                      vs[Len(vs) + 1 - i])]

\* FlyerPipeline.build_prompt_packages
build_prompt_packages(b, st, vs) ==
    [i \in 1..Len(vs) |-> PromptPackage(image_prompt(b, st, vs[i]), NegativePrompt, vs[i])]

\* run, lines 315-318: package the prompts and make the run directory
BuildPackages ==
    /\ pc = "packages"
    /\ \/ /\ packages' = build_prompt_packages(brief, style[1], variants)
          /\ img' = [ImgIdle EXCEPT !.idx = 1]
          /\ pc' = "variant_begin"
          /\ UNCHANGED cp
          /\ NoRaise
       \/ /\ Raise(FsMessage, "mkdir", 0)
          \* the assignment of line 315 precedes mkdir
          /\ packages' = build_prompt_packages(brief, style[1], variants)
    /\ UNCHANGED <<cfg, brief, active_brief, run_record, db_run, status_writes, writes,
                   db_variants, style, variants, images, result, enf>>

\* generate_images, line 238: image_path when no storage client uploads it
LocalPath(i) == [kind |-> "local", run_id |-> 0, index |-> i]
\* storage.key_for_image / StorageClient.upload_file
key_for_image(run_id, i) == [kind |-> "s3", run_id |-> run_id, index |-> i]

\* schemas.ImageVariant
ImageVariant(i, pkg, path, passed, text) ==
    [index |-> i, prompt |-> pkg, image_path |-> path, qc_passed |-> passed,
     qc_text |-> text]

\* generate_images, lines 269-277
expected_phrases(pkg, active) ==
    <<pkg.copy_variant.headline, pkg.copy_variant.subhead, pkg.copy_variant.body,
      pkg.copy_variant.cta, OrElse(pkg.copy_variant.disclaimer, EmptyText)>>
        \o required_details(active)

\* qc.extract_text: the reply of the vision model, stripped
extract_text(reply) == strip(reply)

\* what the vision model may read from the image
OcrReplies(pkg, b) ==
    {JoinTexts(expected_phrases(pkg, Some(b))), <<"z", "z">>, <<" ", "z", "y">>}

imageFrame ==
    UNCHANGED <<cfg, brief, active_brief, run_record, db_run, status_writes, style,
                variants, packages, result, enf>>

\* generate_images, line 251: range(1, max_image_attempts + 1) is not empty
loop_entered(max_attempts) == max_attempts >= 1

\* generate_images, lines 237-250: the head of the loop over the packages
VariantBegin ==
    /\ pc = "variant_begin"
    /\ img.idx <= Len(packages)
    /\ LET fresh == [img EXCEPT !.qc_passed = FALSE, !.qc_text = EmptyText,
                                !.attempt = 1, !.image_written = FALSE,
                                !.gen_calls = 0, !.ocr_seen = <<>>,
                                !.image_url = None,
                                !.variant_id = None]
           after == IF loop_entered(cfg.max_image_attempts) THEN "generate" ELSE "upload"
       IN \/ /\ HasRunId
             /\ db_variants' =
                   Append(db_variants,
                          create_variant(run_record[1], img.idx,
                                         packages[img.idx].copy_variant,
                                         packages[img.idx].image_prompt,
                                         packages[img.idx].negative_prompt))
             /\ writes' = Append(writes, Write("create_variant", img.idx, ""))
             /\ img' = [fresh EXCEPT !.variant_id = Some(Len(db_variants) + 1)]
             /\ pc' = after
             /\ UNCHANGED cp
             /\ NoRaise
          \/ /\ HasRunId
             /\ Raise(DbMessage, "create_variant", 0)
             /\ UNCHANGED <<db_variants, writes>>
          \/ /\ ~HasRunId
             /\ img' = fresh
             /\ pc' = after
             /\ UNCHANGED cp
             /\ NoRaise
             /\ UNCHANGED <<db_variants, writes>>
    /\ UNCHANGED images
    /\ imageFrame

\* generate_images, lines 251-266: one call of generate_image
GenerateImage ==
    /\ pc = "generate"
    /\ \/ /\ IF ~cfg.qc_enabled
             THEN /\ img' = [img EXCEPT !.image_written = TRUE,
                                        !.gen_calls = img.gen_calls + 1,
                                        !.qc_passed = TRUE,
                                        !.qc_text = QcDisabledText]
                  /\ pc' = "upload"
             ELSE /\ img' = [img EXCEPT !.image_written = TRUE,
                                        !.gen_calls = img.gen_calls + 1]
                  /\ pc' = "qc"
          /\ UNCHANGED cp
          /\ NoRaise
       \/ Raise(ImageMessage, "generate_image", img.attempt)
    /\ UNCHANGED <<db_variants, writes, images>>
    /\ imageFrame

\* variant of QcCheck: the QC outcome of every attempt is written to the
\* variant record
QcCheck_recordsEachAttempt ==
    /\ pc = "qc"
    /\ \/ /\ \E reply \in OcrReplies(packages[img.idx], brief) :
                LET text == extract_text(reply)
                    passed == validate_text(expected_phrases(packages[img.idx],
                                                             active_brief), text)
                    last == passed \/ img.attempt >= cfg.max_image_attempts
                IN /\ img' = [img EXCEPT !.qc_text = text, !.qc_passed = passed,
                                         !.ocr_seen = Append(img.ocr_seen, text),
                                         !.attempt = IF last THEN img.attempt
                                                     ELSE img.attempt + 1]
                   /\ pc' = IF last THEN "upload" ELSE "generate"
                   /\ IF HasRunId
                      THEN /\ db_variants' = update_variant_qc(db_variants,
                                                 img.variant_id[1], passed, text)
                           /\ writes' = Append(writes,
                                               Write("update_variant_qc", img.idx, ""))
                      ELSE UNCHANGED <<db_variants, writes>>
          /\ UNCHANGED cp
          /\ NoRaise
       \/ /\ Raise(OcrMessage, "extract_text", img.attempt)
          /\ UNCHANGED <<db_variants, writes>>
    /\ UNCHANGED images
    /\ imageFrame

\* variant of QcCheck: the loop allows one attempt more than configured
QcCheck_extraAttempt ==
    /\ pc = "qc"
    /\ \/ \E reply \in OcrReplies(packages[img.idx], brief) :
             LET text == extract_text(reply)
                 passed == validate_text(expected_phrases(packages[img.idx], active_brief),
                                         text)
                 last == passed \/ img.attempt > cfg.max_image_attempts
             IN /\ img' = [img EXCEPT !.qc_text = text, !.qc_passed = passed,
                                      !.ocr_seen = Append(img.ocr_seen, text),
                                      !.attempt = IF last THEN img.attempt
                                                  ELSE img.attempt + 1]
                /\ pc' = IF last THEN "upload" ELSE "generate"
                /\ UNCHANGED cp
                /\ NoRaise
       \/ Raise(OcrMessage, "extract_text", img.attempt)
    /\ UNCHANGED <<db_variants, writes, images>>
    /\ imageFrame

\* generate_images, lines 267-281: OCR, validation, then break or next attempt
QcCheck ==
    /\ pc = "qc"
    /\ \/ \E reply \in OcrReplies(packages[img.idx], brief) :
             LET text == extract_text(reply)
                 passed == validate_text(expected_phrases(packages[img.idx], active_brief),
                                         text)
                 last == passed \/ img.attempt >= cfg.max_image_attempts
             IN /\ img' = [img EXCEPT !.qc_text = text, !.qc_passed = passed,
                                      !.ocr_seen = Append(img.ocr_seen, text),
                                      !.attempt = IF last THEN img.attempt
                                                  ELSE img.attempt + 1]
                /\ pc' = IF last THEN "upload" ELSE "generate"
                /\ UNCHANGED cp
                /\ NoRaise
       \/ Raise(OcrMessage, "extract_text", img.attempt)
    /\ UNCHANGED <<db_variants, writes, images>>
    /\ imageFrame

\* generate_images, lines 282-285: image_url, the local path unless a
\* storage client is configured and the run has an id
image_reference(storage, run_id, i) ==
    IF storage /\ ~IsNone(run_id) THEN key_for_image(run_id[1], i) ELSE LocalPath(i)

\* generate_images, lines 282-285: the image reference, uploaded when a
\* storage client is configured and the run has an id
StoreImage ==
    /\ pc = "upload"
    /\ LET after == IF Persistence /\ ~IsNone(img.variant_id) THEN "update_image"
                    ELSE "append"
           uploads == cfg.storage /\ ~IsNone(run_record)
       IN \/ /\ uploads => img.image_written
             /\ img' = [img EXCEPT !.image_url =
                           Some(image_reference(cfg.storage, run_record, img.idx))]
             /\ pc' = after
             /\ UNCHANGED cp
             /\ NoRaise
          \/ /\ uploads
             \* upload_file raises: transport error, or no file at image_path
             /\ Raise(StorageMessage, "upload", 0)
    /\ UNCHANGED <<db_variants, writes, images>>
    /\ imageFrame

\* generate_images, lines 286-287
UpdateVariantImage ==
    /\ pc = "update_image"
    /\ \/ /\ db_variants' = update_variant_image(db_variants, img.variant_id[1],
                                                 img.image_url[1])
          /\ writes' = Append(writes, Write("update_variant_image", img.idx, ""))
          /\ pc' = "update_qc"
          /\ UNCHANGED <<cp, img>>
          /\ NoRaise
       \/ /\ Raise(DbMessage, "update_variant_image", 0)
          /\ UNCHANGED <<db_variants, writes>>
    /\ UNCHANGED images
    /\ imageFrame

\* generate_images, line 288
UpdateVariantQc ==
    /\ pc = "update_qc"
    /\ \/ /\ db_variants' = update_variant_qc(db_variants, img.variant_id[1],
                                              img.qc_passed, img.qc_text)
          /\ writes' = Append(writes, Write("update_variant_qc", img.idx, ""))
          /\ pc' = "append"
          /\ UNCHANGED <<cp, img>>
          /\ NoRaise
       \/ /\ Raise(DbMessage, "update_variant_qc", 0)
          /\ UNCHANGED <<db_variants, writes>>
    /\ UNCHANGED images
    /\ imageFrame

\* variant of AppendVariant: a variant whose QC failed is not appended
AppendVariant_dropFailed ==
    /\ pc = "append"
    /\ img' = [img EXCEPT !.variants =
                              IF img.qc_passed
                              THEN Append(img.variants,
                                          ImageVariant(img.idx, packages[img.idx],
                                                       img.image_url[1], img.qc_passed,
                                                       img.qc_text))
                              ELSE img.variants,
                          !.idx = img.idx + 1]
    /\ pc' = "variant_begin"
    /\ UNCHANGED cp
    /\ NoRaise
    /\ UNCHANGED <<db_variants, writes, images>>
    /\ imageFrame

\* generate_images, lines 289-297: append the ImageVariant, next package
AppendVariant ==
    /\ pc = "append"
    /\ img' = [img EXCEPT !.variants = Append(img.variants,
                              ImageVariant(img.idx, packages[img.idx], img.image_url[1],
                                           img.qc_passed, img.qc_text)),
                          !.idx = img.idx + 1]
    /\ pc' = "variant_begin"
    /\ UNCHANGED cp
    /\ NoRaise
    /\ UNCHANGED <<db_variants, writes, images>>
    /\ imageFrame

\* generate_images, line 298, and run, line 319: the list is returned to run
ReturnImages ==
    /\ pc = "variant_begin"
    /\ img.idx > Len(packages)
    /\ images' = img.variants
    /\ img' = ImgIdle
    /\ pc' = "manifest"
    /\ UNCHANGED cp
    /\ NoRaise
    /\ UNCHANGED <<db_variants, writes>>
    /\ imageFrame

\* ------------------------------------------------------------------------
\* FlyerPipeline.run: result, terminal status, except and finally
\* ------------------------------------------------------------------------
\* schemas.RunResult
RunResult(b, st, imgs) == [brief |-> b, brand_style |-> st, variants |-> imgs]

runTail ==
    UNCHANGED <<cfg, brief, run_record, db_variants, style, variants, packages,
                images, enf>>

\* variant of WriteManifest: COMPLETE is written before run.json
WriteManifest_afterComplete ==
    /\ pc = "manifest"
    /\ result' = Some(RunResult(brief, style[1], images))
    /\ IF HasRunId
       THEN /\ db_run' = update_run_status(db_run, "COMPLETE", NULL)
            /\ status_writes' = Append(status_writes, "COMPLETE")
            /\ writes' = writes \o <<Write("update_run_status", 0, "COMPLETE"),
                                     Write("manifest", 0, "")>>
       ELSE /\ writes' = Append(writes, Write("manifest", 0, ""))
            /\ UNCHANGED <<db_run, status_writes>>
    /\ pc' = "finally"
    /\ UNCHANGED <<cp, img>>
    /\ NoRaise
    /\ UNCHANGED active_brief
    /\ runTail

\* run, lines 323-330: assemble the RunResult and write run.json
WriteManifest ==
    /\ pc = "manifest"
    /\ result' = Some(RunResult(brief, style[1], images))
    /\ \/ /\ writes' = Append(writes, Write("manifest", 0, ""))
          /\ pc' = IF HasRunId THEN "complete" ELSE "finally"
          /\ UNCHANGED <<cp, img>>
          /\ NoRaise
       \/ /\ Raise(FsMessage, "manifest", 0)
          /\ UNCHANGED writes
    /\ UNCHANGED <<active_brief, db_run, status_writes>>
    /\ runTail

\* variant of WriteComplete: an error is raised after COMPLETE was committed
WriteComplete_raiseAfterCommit ==
    /\ pc = "complete"
    /\ db_run' = update_run_status(db_run, "COMPLETE", NULL)
    /\ status_writes' = Append(status_writes, "COMPLETE")
    /\ writes' = Append(writes, Write("update_run_status", 0, "COMPLETE"))
    /\ \/ /\ pc' = "finally"
          /\ UNCHANGED <<cp, img>>
          /\ NoRaise
       \/ Raise(DbMessage, "complete", 0)
    /\ UNCHANGED <<active_brief, result>>
    /\ runTail

\* variant of WriteComplete: a run with a variant whose QC failed is marked
\* FAILED
WriteComplete_qcFails ==
    /\ pc = "complete"
    /\ \/ /\ IF \E i \in 1..Len(images) : ~images[i].qc_passed
             THEN /\ db_run' = update_run_status(db_run, "FAILED", "qc failed")
                  /\ status_writes' = Append(status_writes, "FAILED")
                  /\ writes' = Append(writes, Write("update_run_status", 0, "FAILED"))
             ELSE /\ db_run' = update_run_status(db_run, "COMPLETE", NULL)
                  /\ status_writes' = Append(status_writes, "COMPLETE")
                  /\ writes' = Append(writes, Write("update_run_status", 0, "COMPLETE"))
          /\ pc' = "finally"
          /\ UNCHANGED <<cp, img>>
          /\ NoRaise
       \/ /\ Raise(DbMessage, "complete", 0)
          /\ UNCHANGED <<db_run, status_writes, writes>>
    /\ UNCHANGED <<active_brief, result>>
    /\ runTail

\* run, lines 331-333
WriteComplete ==
    /\ pc = "complete"
    /\ \/ /\ db_run' = update_run_status(db_run, "COMPLETE", NULL)
          /\ status_writes' = Append(status_writes, "COMPLETE")
          /\ writes' = Append(writes, Write("update_run_status", 0, "COMPLETE"))
          /\ pc' = "finally"
          /\ UNCHANGED <<cp, img>>
          /\ NoRaise
       \/ /\ Raise(DbMessage, "complete", 0)
          /\ UNCHANGED <<db_run, status_writes, writes>>
    /\ UNCHANGED <<active_brief, result>>
    /\ runTail

\* variant of Except: the variant records of the failed run are deleted
Except_rollback ==
    /\ pc = "except"
    /\ \/ /\ HasRunId
          /\ db_run' = update_run_status(db_run, "FAILED", exc.msg)
          /\ status_writes' = Append(status_writes, "FAILED")
          /\ writes' = Append(writes, Write("update_run_status", 0, "FAILED"))
          /\ db_variants' = <<>>
          /\ NoRaise
       \/ /\ HasRunId
          /\ exc' = Exc(DbMessage, "failed_write", 0)
          /\ UNCHANGED caught
          /\ UNCHANGED <<db_run, status_writes, writes, db_variants>>
       \/ /\ ~HasRunId
          /\ NoRaise
          /\ UNCHANGED <<db_run, status_writes, writes, db_variants>>
    /\ pc' = "finally"
    /\ UNCHANGED <<active_brief, result, cp, img>>
    /\ UNCHANGED <<cfg, brief, run_record, style, variants, packages, images, enf>>

\* variant of Except: the FAILED status is written without the message
Except_noMessage ==
    /\ pc = "except"
    /\ \/ /\ HasRunId
          /\ db_run' = update_run_status(db_run, "FAILED", NULL)
          /\ status_writes' = Append(status_writes, "FAILED")
          /\ writes' = Append(writes, Write("update_run_status", 0, "FAILED"))
          /\ NoRaise
       \/ /\ HasRunId
          /\ exc' = Exc(DbMessage, "failed_write", 0)
          /\ UNCHANGED caught
          /\ UNCHANGED <<db_run, status_writes, writes>>
       \/ /\ ~HasRunId
          /\ NoRaise
          /\ UNCHANGED <<db_run, status_writes, writes>>
    /\ pc' = "finally"
    /\ UNCHANGED <<active_brief, result, cp, img>>
    /\ runTail

\* run, lines 334-337: the except clause
Except ==
    /\ pc = "except"
    /\ \/ /\ HasRunId
          /\ db_run' = update_run_status(db_run, "FAILED", exc.msg)
          /\ status_writes' = Append(status_writes, "FAILED")
          /\ writes' = Append(writes, Write("update_run_status", 0, "FAILED"))
          /\ NoRaise
       \/ /\ HasRunId
          \* the FAILED write raises: its exception replaces the one in flight
          /\ exc' = Exc(DbMessage, "failed_write", 0)
          /\ UNCHANGED caught
          /\ UNCHANGED <<db_run, status_writes, writes>>
       \/ /\ ~HasRunId
          /\ NoRaise
          /\ UNCHANGED <<db_run, status_writes, writes>>
    /\ pc' = "finally"
    /\ UNCHANGED <<active_brief, result, cp, img>>
    /\ runTail

\* run, lines 338-339: the finally clause, then return or re-raise
Finally ==
    /\ pc = "finally"
    /\ active_brief' = None
    /\ pc' = IF exc = NoExc THEN "returned" ELSE "raised"
    /\ NoRaise
    /\ UNCHANGED <<db_run, status_writes, writes, result, cp, img>>
    /\ runTail

Next ==
    \/ RunStart
    \/ BuildBrandStyle
    \/ UpdateRunStyle
    \/ CopyRequest
    \/ PadRequest
    \/ Enforce
    \/ BuildPackages
    \/ VariantBegin
    \/ GenerateImage
    \/ QcCheck
    \/ StoreImage
    \/ UpdateVariantImage
    \/ UpdateVariantQc
    \/ AppendVariant
    \/ ReturnImages
    \/ WriteManifest
    \/ WriteComplete
    \/ Except
    \/ Finally

Spec == Init /\ [][Next]_vars

\* ------------------------------------------------------------------------
\* Properties of FlyerPipeline.run (specification Spec)
\* ------------------------------------------------------------------------
Last(seq) == seq[Len(seq)]

\* C1: with persistence enabled the persisted run status is RUNNING when the
\* run record is created and afterwards is written at most once more, to
\* COMPLETE or to FAILED; a terminal status is never written again and the
\* status never returns to RUNNING.
C1_StatusLifecycle ==
    /\ Len(status_writes) <= 2
    /\ status_writes # <<>> => status_writes[1] = "RUNNING"
    /\ Len(status_writes) = 2 => status_writes[2] \in {"COMPLETE", "FAILED"}
    /\ db_run.exists <=> status_writes # <<>>
    /\ db_run.exists => db_run.status = Last(status_writes)
    /\ db_run.exists => Persistence

\* C1 witness: the COMPLETE write raised and the run record went from
\* RUNNING to FAILED, once.
C1_Witness ==
    /\ pc = "raised"
    /\ caught.site = "complete"
    /\ status_writes = <<"RUNNING", "FAILED">>
    /\ db_run.status = "FAILED"

\* C2: when a step of run raises after the run record was created, the run
\* record ends FAILED with error equal to the exception's message and the
\* same exception reaches the caller.
C2_FailedWithMessage ==
    (pc = "raised" /\ Persistence /\ caught # NoExc) =>
        /\ db_run.status = "FAILED"
        /\ db_run.error = caught.msg
        /\ exc = caught

\* C3: with QC enabled, when validation failed on each of the
\* max_image_attempts attempts for a package, generate_images goes on to
\* append an ImageVariant with qc_passed = FALSE and the OCR text of the last
\* attempt; the list it returns has one ImageVariant per package, in order.
C3_QcExhaustionKeepsVariant ==
    /\ (pc = "variant_begin" /\ img.idx >= 2 /\ cfg.qc_enabled
          /\ cfg.max_image_attempts >= 1
          /\ Len(img.ocr_seen) = cfg.max_image_attempts
          /\ \A k \in 1..Len(img.ocr_seen) :
                ~validate_text(expected_phrases(packages[img.idx - 1], Some(brief)),
                               img.ocr_seen[k]))
        => /\ Len(img.variants) = img.idx - 1
           /\ img.variants[img.idx - 1].qc_passed = FALSE
           /\ img.variants[img.idx - 1].qc_text = Last(img.ocr_seen)
    /\ pc = "variant_begin" => Len(img.variants) = img.idx - 1
    /\ pc = "manifest" =>
          /\ Len(images) = Len(packages)
          /\ \A i \in 1..Len(images) :
                images[i].index = i /\ images[i].prompt = packages[i]

\* C3 witness: a variant was appended after two failed attempts whose OCR
\* texts differ.
C3_Witness ==
    /\ pc = "variant_begin"
    /\ img.idx >= 2
    /\ cfg.qc_enabled
    /\ cfg.max_image_attempts = 2
    /\ Len(img.ocr_seen) = 2
    /\ img.ocr_seen[1] # img.ocr_seen[2]
    /\ ~img.variants[img.idx - 1].qc_passed

\* C4: a run that raises nothing and has a variant with qc_passed = FALSE
\* returns a RunResult holding those variants and, with persistence, ends
\* COMPLETE; the run record is FAILED only when an exception was caught.
C4_QcFailureIsNotRunFailure ==
    /\ (pc = "returned" /\ \E i \in 1..Len(images) : ~images[i].qc_passed) =>
          /\ exc = NoExc
          /\ result = Some(RunResult(brief, style[1], images))
          /\ Persistence => db_run.status = "COMPLETE"
    /\ db_run.status = "FAILED" => caught # NoExc

\* C4 witness: a persisted run returned with a variant whose QC failed.
C4_Witness ==
    /\ pc = "returned"
    /\ Persistence
    /\ db_run.status = "COMPLETE"
    /\ \E i \in 1..Len(images) : ~images[i].qc_passed /\ result[1].variants[i] = images[i]

\* C5: a failure of generate_image ends the run only when it happens on the
\* last of the max_image_attempts attempts; on an earlier attempt it is
\* retried.
C5_ImageFailureRetried ==
    caught.site = "generate_image" => caught.at = cfg.max_image_attempts

\* C6: generate_copy_variants returns a list of exactly target_count
\* variants, or raises.
C6_ExactlyTargetCount ==
    /\ pc = "enforce" => Len(cp.variants) = target_count
    /\ pc = "packages" => Len(variants) = target_count
    /\ variants # <<>> => Len(variants) = target_count

\* C6 witness: generate_copy_variants returned two different variants for a
\* target of two.
C6_Witness ==
    /\ pc = "packages"
    /\ target_count = 2
    /\ Len(variants) = 2
    /\ variants[1] # variants[2]

\* C7 as stated: a reply that cannot be used on the first or second cycle of
\* copy generation does not fail the run; copy generation fails only in its
\* third cycle.
C7_FailureOnlyAfterThreeCycles ==
    caught.site = "copy" => caught.at = 3

\* C7 amended: a cycle is repeated only when the list is still short after
\* the padding request; a reply that cannot be used raises in the cycle it
\* arrives in, and the failure for a short list is raised in the third cycle.
C7_OnlyShortCyclesRepeat ==
    /\ (pc = "copy_request" /\ cp.attempt > 1) => cp.last_outcome = "short"
    /\ pc = "pad" => cp.last_outcome = "short"
    /\ pc = "enforce" => cp.last_outcome \in {"exact", "over"}
    /\ cp.attempt <= 3
    /\ (caught.site = "copy" /\ caught.msg = ExhaustedMessage) => caught.at = 3

\* C7 witness: a reply that did not parse, in the second cycle, failed the
\* run.
C7_Witness ==
    /\ pc = "raised"
    /\ caught.site = "copy"
    /\ caught.msg = JSONDecodeMessage
    /\ caught.at = 2

\* ------------------------------------------------------------------------
\* The enforcers on their own (specification SpecEnforce): one variant is
\* handed to _ensure_constraints or _ensure_overlay_fit
\* ------------------------------------------------------------------------
EnfHeadlines ==
    {<<"a", "a">>, Words("a", 7, 1), Word("a", 30), EmptyText, <<" ", "a", "a", " ">>,
     Words("a", 11, 1), Word("a", MaxCharsHeadline),
     Word("a", MaxCharsHeadline - 2) \o <<" ", "b", "b">>}
EnfSubheads == {<<"b">>, Word("b", MaxCharsSubhead + 1)}
EnfBodies == {<<"c">>, Words("c", 30, 1), Words("c", 33, 1), Word("c", MaxCharsBody + 1)}
EnfCtas == {<<"g", "o">>, Word("g", MaxCharsCta + 1)}
EnfDisclaimers == {None, Some(<<"t">>), Some(Words("t", 13, 1)), Some(EmptyText)}

EnfInputs ==
    {CopyVariant(h, s, b, c, d) :
        h \in EnfHeadlines, s \in EnfSubheads, b \in EnfBodies, c \in EnfCtas,
        d \in EnfDisclaimers}

\* replies to the rewrite request
EnfRewriteContents ==
    Contents({JObject(Obj(VA)), JObject(Obj(VB)),
              JObject(Obj(CopyVariant(Word("a", 30), <<"b">>, <<"c">>, <<"g", "o">>,
                                      Some(<<" ">>)))),
              JObject(BadObj), JList(<<Obj(VA)>>)})

EnfNoOut == [ok |-> FALSE, v |-> NoVariant, calls |-> 0, error |-> ""]

EnforceInit ==
    /\ RunInit
    /\ cfg = [persistence |-> FALSE, storage |-> FALSE, qc_enabled |-> FALSE,
              max_image_attempts |-> 0, variants |-> 1]
    /\ brief = BriefA
    /\ enf \in [phase : {"input"}, pipeline : {"flyer", "comfy"}, input : EnfInputs,
                out : {EnfNoOut}]

\* FlyerPipeline._ensure_constraints on the input
EnforceFlyer ==
    /\ enf.phase = "input"
    /\ enf.pipeline = "flyer"
    /\ \E first \in (IF within_constraints(enf.input) THEN {Garbage}
                     ELSE EnfRewriteContents) :
       \E repaired \in RepairReplies(first, EnfRewriteContents) :
          enf' = [enf EXCEPT !.phase = "done",
                             !.out = ensure_constraints(enf.input, first, repaired)]
    /\ UNCHANGED runVars

\* ComfyFlyerPipeline._ensure_overlay_fit on the input
EnforceComfy ==
    /\ enf.phase = "input"
    /\ enf.pipeline = "comfy"
    /\ \E first \in (IF overlay_ok(enf.input) THEN {Garbage} ELSE EnfRewriteContents) :
       \E repaired \in RepairReplies(first, EnfRewriteContents) :
          enf' = [enf EXCEPT !.phase = "done",
                             !.out = ensure_overlay_fit(enf.input, first, repaired)]
    /\ UNCHANGED runVars

EnforceNext ==
    \/ EnforceFlyer
    \/ EnforceComfy

SpecEnforce == EnforceInit /\ [][EnforceNext]_vars

\* the budgets: upper limits on the words of each field and, for the overlay
\* enforcer, on its characters
WordsAtMost(v, body_words) ==
    /\ word_count(v.headline) <= 6
    /\ word_count(v.subhead) <= 10
    /\ word_count(v.body) <= body_words
    /\ word_count(v.cta) <= 4
    /\ word_count(OrElse(v.disclaimer, EmptyText)) <= 12

CharsAtMost(v) ==
    /\ Len(v.headline) <= 22
    /\ Len(v.subhead) <= 34
    /\ Len(v.body) <= 160
    /\ Len(v.cta) <= 16
    /\ Len(OrElse(v.disclaimer, EmptyText)) <= 34

WithinBudgets(v, pipeline) ==
    IF pipeline = "flyer" THEN WordsAtMost(v, 28)
    ELSE WordsAtMost(v, 32) /\ CharsAtMost(v)

HasWords(v) ==
    /\ word_count(v.headline) >= 1
    /\ word_count(v.subhead) >= 1
    /\ word_count(v.body) >= 1
    /\ word_count(v.cta) >= 1

\* C8: every CopyVariant an enforcer returns is within the budgets, whatever
\* the reply to the rewrite request.
C8_OutputWithinBudgets ==
    (enf.phase = "done" /\ enf.out.ok) => WithinBudgets(enf.out.v, enf.pipeline)

\* C9: the enforcer never fails: whatever the reply to the rewrite request,
\* it returns a variant and no error propagates.
C9_EnforcerNeverFails ==
    enf.phase = "done" => enf.out.ok

\* C10 as stated: a variant within every budget is returned unchanged and no
\* model request is made.
C10_CompliantUnchanged ==
    (enf.phase = "done" /\ WithinBudgets(enf.input, enf.pipeline)) =>
        /\ enf.out.ok
        /\ enf.out.v = enf.input
        /\ enf.out.calls = 0

\* C10 amended: a variant within every budget whose headline, subhead, body
\* and cta each have at least one word is returned unchanged and no model
\* request is made.
C10_CompliantNonEmptyUnchanged ==
    (enf.phase = "done" /\ WithinBudgets(enf.input, enf.pipeline) /\ HasWords(enf.input)) =>
        /\ enf.out.ok
        /\ enf.out.v = enf.input
        /\ enf.out.calls = 0

\* C10 witness: the overlay enforcer returned a variant whose headline is
\* exactly at the character limit.
C10_Witness ==
    /\ enf.phase = "done"
    /\ enf.pipeline = "comfy"
    /\ WithinBudgets(enf.input, "comfy")
    /\ HasWords(enf.input)
    /\ Len(enf.input.headline) = 22
    /\ enf.out.v = enf.input
    /\ enf.out.calls = 0

\* C11 as stated: the enforcer makes at most one model call per variant.
C11_AtMostOneCall ==
    enf.phase = "done" => enf.out.calls <= 1

\* C11 amended: the enforcer makes no call for a variant it accepts and
\* otherwise one rewrite request, to which chat_json adds its one repair
\* request when the reply does not parse: at most two model calls, then the
\* enforcer is done.
C11_AtMostRewriteAndRepair ==
    enf.phase = "done" =>
        /\ enf.out.calls \in {0, 1, 2}
        /\ enf.out.calls = 0 <=>
              IF enf.pipeline = "flyer"
              THEN WordsAtMost(enf.input, 28) /\ HasWords(enf.input)
              ELSE WordsAtMost(enf.input, 32) /\ CharsAtMost(enf.input)
                   /\ HasWords(enf.input)
        /\ ~enf.out.ok => enf.out.calls = 2 \/ enf.pipeline = "flyer"

\* C11 witness: a rewrite reply that did not parse was followed by the repair
\* request and the enforcer returned.
C11_Witness ==
    /\ enf.phase = "done"
    /\ enf.out.ok
    /\ enf.out.calls = 2
    /\ enf.out.v # enf.input

\* ------------------------------------------------------------------------
\* trunc on its own (specification SpecTrunc)
\* ------------------------------------------------------------------------
\* longest second word of a text handed to trunc
MaxTruncTail == 2

\* the limits of max_chars
TruncLimits == {MaxCharsHeadline, MaxCharsSubhead, MaxCharsBody, MaxCharsCta,
                MaxCharsDisclaimer}

\* texts around the limit: blanks, a word of limit - 3 .. limit + 1 letters,
\* a gap and a second word
TruncTexts(limit) ==
    {lead \o Word("a", n) \o gap \o Word("b", m) \o trail :
        lead \in {<<>>, <<" ">>}, n \in (limit - 3)..(limit + 1),
        gap \in {<<>>, <<" ">>, <<" ", " ">>}, m \in 0..MaxTruncTail,
        trail \in {<<>>, <<" ">>}}

\* the run is not started while a function is applied on its own
HarnessInit ==
    /\ RunInit
    /\ cfg = [persistence |-> FALSE, storage |-> FALSE, qc_enabled |-> FALSE,
              max_image_attempts |-> 0, variants |-> 1]
    /\ brief = BriefA

TruncInit ==
    /\ HarnessInit
    /\ \E limit \in TruncLimits : \E text \in TruncTexts(limit) :
          enf = [phase |-> "input", text |-> text, limit |-> limit, out |-> EmptyText]

\* trunc(text, limit)
Trunc ==
    /\ enf.phase = "input"
    /\ enf' = [enf EXCEPT !.phase = "done", !.out = trunc(enf.text, enf.limit)]
    /\ UNCHANGED runVars

SpecTrunc == TruncInit /\ [][Trunc]_vars

\* C12 as stated: a stripped text longer than the limit L becomes exactly its
\* first L - 1 characters followed by the marker; a text within the limit is
\* kept as stripped.
C12_CutToLimitMinusOne ==
    enf.phase = "done" =>
        LET t == strip(enf.text)
        IN IF Len(t) > enf.limit
           THEN enf.out = SubSeq(t, 1, enf.limit - 1) \o EllipsisMarker
           ELSE enf.out = t

\* C12 amended: a stripped text longer than the limit L becomes its first
\* L - 1 characters without their trailing whitespace, followed by the
\* marker: exactly L - 1 characters when the character at L - 1 is not
\* whitespace, fewer otherwise; a text within the limit is kept as stripped.
C12_CutAndRstrip ==
    enf.phase = "done" =>
        LET t == strip(enf.text)
        IN IF Len(t) > enf.limit
           THEN \E k \in 0..(enf.limit - 1) :
                   /\ enf.out = SubSeq(t, 1, k) \o EllipsisMarker
                   /\ k = 0 \/ ~IsSpace(t[k])
                   /\ \A j \in (k + 1)..(enf.limit - 1) : IsSpace(t[j])
           ELSE enf.out = t

\* C12 witness: the character at L - 1 is a blank and the headline ends
\* shorter than 21 characters plus the marker.
C12_Witness ==
    /\ enf.phase = "done"
    /\ enf.limit = 22
    /\ Len(strip(enf.text)) > 22
    /\ IsSpace(strip(enf.text)[21])
    /\ Len(enf.out) < 21 + Len(EllipsisMarker)

\* ------------------------------------------------------------------------
\* chat_json on its own (specification SpecChatJson)
\* ------------------------------------------------------------------------
\* replies of the model: every way of writing a value, and unparseable text
ChatContents ==
    {Content(kind, v) : kind \in {"json", "fenced", "prose", "pyrepr"},
                        v \in ListValues(PrimaryItems)}
        \cup {Garbage, NullReply}

ChatJsonInit ==
    /\ HarnessInit
    /\ \E first \in ChatContents :
          enf = [phase |-> "input", first |-> first, repaired |-> NoDoc,
                 out |-> chat_json(Garbage, Garbage)]

\* chat_json: the first reply and, when the repair request is made, its reply
ChatJson ==
    /\ enf.phase = "input"
    /\ \E repaired \in RepairReplies(enf.first, ChatContents) :
          LET out == chat_json(enf.first, repaired)
          IN enf' = [enf EXCEPT !.phase = "done",
                                !.repaired = IF out.calls > 1 THEN repaired ELSE NoDoc,
                                !.out = out]
    /\ UNCHANGED runVars

SpecChatJson == ChatJsonInit /\ [][ChatJson]_vars

\* the text is one the local parse sequence gives up on
Unparsed(content) == content.kind \notin {"json", "fenced", "prose", "pyrepr"}

\* C13: chat_json makes the repair request exactly when the first reply fails
\* the parse sequence, and never a third call; a repair reply that parses is
\* returned; when it fails too the error raised carries the first reply.
C13_RepairOnce ==
    enf.phase = "done" =>
        /\ enf.out.calls \in {1, 2}
        /\ enf.out.calls = 2 <=> Unparsed(enf.first)
        /\ ~Unparsed(enf.first) => enf.out.ok /\ enf.out.value = enf.first.value
        /\ (Unparsed(enf.first) /\ ~Unparsed(enf.repaired)) =>
              enf.out.ok /\ enf.out.value = enf.repaired.value
        /\ (Unparsed(enf.first) /\ Unparsed(enf.repaired)) =>
              /\ ~enf.out.ok
              /\ enf.out.error = JSONDecodeMessage
              /\ enf.out.doc = enf.first

\* C13 witness: both replies failed to parse, with different texts, and the
\* error raised after two calls carries the first.
C13_Witness ==
    /\ enf.phase = "done"
    /\ ~enf.out.ok
    /\ enf.out.calls = 2
    /\ enf.first # enf.repaired
    /\ enf.out.doc = enf.first

\* C28: chat_json returns no null: the value it returns is that of a reply
\* which is neither null nor unparseable; a first reply that is null leads to
\* the repair request like one that does not parse, and a repair reply that
\* is null as well makes chat_json raise.
C28_NeverReturnsNull ==
    enf.phase = "done" =>
        /\ enf.out.ok =>
              LET from == IF enf.out.calls = 1 THEN enf.first ELSE enf.repaired
              IN from.kind \notin {"null", "garbage"} /\ enf.out.value = from.value
        /\ enf.first.kind = "null" =>
              /\ enf.out.calls = 2
              /\ LET same == chat_json(Garbage, enf.repaired)
                 IN /\ enf.out.ok = same.ok
                    /\ enf.out.value = same.value
                    /\ enf.out.error = same.error
              /\ enf.repaired.kind = "null" =>
                    ~enf.out.ok /\ enf.out.error = JSONDecodeMessage

\* C28 witness: both replies were the JSON value null and chat_json raised
\* after the second.
C28_Witness ==
    /\ enf.phase = "done"
    /\ enf.first.kind = "null"
    /\ enf.repaired.kind = "null"
    /\ enf.out.calls = 2
    /\ ~enf.out.ok

\* ------------------------------------------------------------------------
\* Further properties of FlyerPipeline.run (specification Spec)
\* ------------------------------------------------------------------------
\* C14: a run returns the same image references whether persistence is
\* enabled or not: each returned reference is the one the run computes for
\* that variant with the persistence gateway switched the other way.
C14_SameWithoutPersistence ==
    pc = "returned" =>
        \A i \in 1..Len(images) :
            images[i].image_path =
                image_reference(cfg.storage,
                                IF Persistence THEN None ELSE Some(RunId), i)

IsPrefix(a, b) == Len(a) <= Len(b) /\ SubSeq(b, 1, Len(a)) = a

\* the operations written for variant i, in order
VariantOps(i) ==
    LET AboutVariant(w) == w.index = i
        ws == SelectSeq(writes, AboutVariant)
    IN [k \in 1..Len(ws) |-> ws[k].op]

\* C16: with persistence, a variant's record is created before the first
\* generate_image call for it and is then updated at most twice, image URL
\* first and QC outcome second, and not before its QC loop has ended.
C16_VariantRecordOrder ==
    /\ \A i \in 1..Len(packages) :
          IsPrefix(VariantOps(i),
                   <<"create_variant", "update_variant_image", "update_variant_qc">>)
    /\ (HasRunId /\ pc \in {"generate", "qc", "upload"}) =>
          VariantOps(img.idx) = <<"create_variant">>
    /\ Len(db_variants) =
          Cardinality({k \in 1..Len(writes) : writes[k].op = "create_variant"})
    /\ \A k \in 1..Len(db_variants) :
          /\ ~IsNone(db_variants[k].image_url)
                <=> Len(VariantOps(db_variants[k].variant_index)) >= 2
          /\ ~IsNone(db_variants[k].qc_text)
                <=> Len(VariantOps(db_variants[k].variant_index)) = 3

\* C16 witness: the first variant's record was created, then updated with the
\* image URL and the QC outcome after a QC loop of two attempts.
C16_Witness ==
    /\ pc = "variant_begin"
    /\ img.idx = 2
    /\ Len(img.ocr_seen) = 2
    /\ VariantOps(1) = <<"create_variant", "update_variant_image", "update_variant_qc">>
    /\ ~IsNone(db_variants[1].image_url)

RECURSIVE VariantWrites(_)
\* the writes for the variants 1..n of a run
VariantWrites(n) ==
    IF n = 0 THEN <<>>
    ELSE VariantWrites(n - 1)
            \o <<Write("create_variant", n, ""), Write("update_variant_image", n, ""),
                 Write("update_variant_qc", n, "")>>

\* the write sequence of a successful run with n variants
WriteSequence(n) ==
    <<Write("create_run", 0, "RUNNING"), Write("update_run_style", 0, "")>>
        \o VariantWrites(n)
        \o <<Write("manifest", 0, ""), Write("update_run_status", 0, "COMPLETE")>>

\* C17: with persistence, the writes of a run that returned, and of any run
\* once COMPLETE is written, are exactly: create run, style snapshot, then per
\* variant in index order its create, image URL and QC outcome, then the
\* manifest, then COMPLETE.
C17_WriteOrder ==
    /\ (pc = "returned" /\ Persistence) => writes = WriteSequence(target_count)
    /\ (\E k \in 1..Len(writes) : writes[k].status = "COMPLETE") =>
          writes = WriteSequence(Len(packages))

\* C17 witness: a persisted run with two variants returned.
C17_Witness ==
    /\ pc = "returned"
    /\ Persistence
    /\ Len(images) = 2
    /\ Len(writes) = 10
    /\ writes[Len(writes)].status = "COMPLETE"

\* the writes without a final FAILED status
BeforeFailed(ws) ==
    IF ws # <<>> /\ ws[Len(ws)].status = "FAILED" THEN SubSeq(ws, 1, Len(ws) - 1) ELSE ws

\* C18: persistence is forward-only: every step adds at most one write and
\* removes none, no variant record is deleted, once an exception is in flight
\* the variant records and the style snapshot stay as they are, and the
\* writes of a persisted run are a prefix of its write sequence, followed at
\* most by the FAILED status.
C18_ForwardOnly ==
    [][/\ IsPrefix(writes, writes')
       /\ Len(writes') <= Len(writes) + 1
       /\ Len(db_variants') >= Len(db_variants)
       /\ exc' # NoExc =>
             /\ db_variants' = db_variants
             /\ db_run'.brand_style_json = db_run.brand_style_json
       /\ Persistence' => IsPrefix(BeforeFailed(writes'), WriteSequence(target_count'))
      ]_vars

\* C18 witness: a run failed after the first variant's record was written in
\* full; the record is still there and the run is FAILED.
C18_Witness ==
    /\ pc = "raised"
    /\ db_run.status = "FAILED"
    /\ Len(db_variants) >= 1
    /\ ~IsNone(db_variants[1].qc_text)
    /\ ~IsNone(db_run.brand_style_json)

\* C19: the list generate_copy_variants hands to the enforcer keeps the order
\* of appearance: the first target_count variants of the primary reply when it
\* has that many, otherwise all k of them in order followed by the first
\* target_count - k variants of the padding reply in order.
C19_OrderOfAppearance ==
    pc = "enforce" =>
        LET k == Len(cp.primary)
            n == target_count
        IN IF k >= n
           THEN cp.variants = SubSeq(cp.primary, 1, n)
           ELSE /\ Len(cp.variants) = n
                /\ SubSeq(cp.variants, 1, k) = cp.primary
                /\ SubSeq(cp.variants, k + 1, n) = SubSeq(cp.extra, 1, n - k)

\* C19 witness: one variant from the primary reply was padded from a reply
\* with two different variants, of which the first was taken.
C19_Witness ==
    /\ pc = "enforce"
    /\ target_count = 2
    /\ Len(cp.primary) = 1
    /\ Len(cp.extra) = 2
    /\ cp.extra[1] # cp.extra[2]
    /\ cp.primary[1] # cp.extra[1]
    /\ cp.variants = <<cp.primary[1], cp.extra[1]>>

\* C21: with QC disabled, a variant about to be returned has had exactly one
\* generate_image call and no OCR call, and carries qc_passed = True and the
\* sentinel QC text.
C21_QcDisabledPassesAfterOneCall ==
    (pc = "append" /\ ~cfg.qc_enabled) =>
        /\ img.gen_calls = 1
        /\ img.ocr_seen = <<>>
        /\ img.qc_passed
        /\ img.qc_text = QcDisabledText

\* the attempts range(1, max_image_attempts + 1) allows
AttemptLimit == IF cfg.max_image_attempts > 0 THEN cfg.max_image_attempts ELSE 0

\* the run is inside the attempt loop of a package
InQcLoop == pc \in {"generate", "qc"}

\* the steps the attempt loop of a package has left at most: two for each
\* attempt not yet begun, and the OCR step of the one under way
LoopSteps == 2 * (AttemptLimit - img.attempt) + (IF pc = "generate" THEN 1 ELSE 0)

\* C24: for every package the attempt loop makes at most max_attempts
\* generate_image calls and at most max_attempts OCR calls, makes a call only
\* while no attempt has passed (every OCR text before the last one failed the
\* validation), and is always left: each of its steps lowers the bounded
\* count of steps it has left.
C24_LoopBoundedAndLeft ==
    [][/\ img'.gen_calls <= AttemptLimit'
       /\ Len(img'.ocr_seen) <= AttemptLimit'
       /\ InQcLoop' =>
             /\ ~img'.qc_passed
             /\ LoopSteps' >= 0
             /\ \A j \in 1..Len(img'.ocr_seen) :
                   ~validate_text(expected_phrases(packages'[img'.idx], active_brief'),
                                  img'.ocr_seen[j])
       /\ (InQcLoop /\ InQcLoop') => LoopSteps' < LoopSteps]_vars

\* C24 witness: the loop of a package was left after its last allowed attempt,
\* the second, which passed after the first had failed.
C24_Witness ==
    /\ pc = "upload"
    /\ cfg.max_image_attempts = 2
    /\ img.gen_calls = 2
    /\ Len(img.ocr_seen) = 2
    /\ img.qc_passed

\* C25: the i-th package carries the i-th copy variant; the variant records
\* of the run have the indices 1, 2, ... in package order, each once, with
\* the copy of their package; the returned ImageVariants have the indices
\* 1..n, the i-th carrying the i-th package, and with persistence there is
\* then one record for each.
C25_IndicesInPackageOrder ==
    /\ Len(packages) > 0 =>
          /\ Len(packages) = Len(variants)
          /\ \A i \in 1..Len(packages) : packages[i].copy_variant = variants[i]
    /\ Len(db_variants) <= Len(packages)
    /\ \A i \in 1..Len(db_variants) :
          /\ db_variants[i].variant_index = i
          /\ db_variants[i].copy_json = packages[i].copy_variant
          /\ db_variants[i].prompt_text = packages[i].image_prompt
    /\ \A i \in 1..Len(img.variants) :
          img.variants[i].index = i /\ img.variants[i].prompt = packages[i]
    /\ pc \in {"manifest", "complete", "returned"} =>
          /\ Len(images) = Len(packages)
          /\ \A i \in 1..Len(images) :
                images[i].index = i /\ images[i].prompt = packages[i]
          /\ HasRunId => Len(db_variants) = Len(images)

\* C25 witness: a persisted run returned two ImageVariants with different
\* copy, indexed 1 and 2 like their records.
C25_Witness ==
    /\ pc = "returned"
    /\ HasRunId
    /\ Len(images) = 2
    /\ images[1].prompt.copy_variant # images[2].prompt.copy_variant
    /\ images[2].prompt.copy_variant = variants[2]
    /\ db_variants[2].variant_index = 2

\* C27: copy generation runs at most 3 cycles, each with one primary request
\* and at most one padding request; a primary request starts from its own
\* reply alone, whatever the cycle before left, and the list handed on is
\* made of the primary and the padding reply of the cycle that produced it.
C27_CyclesDoNotMix ==
    [][/\ cp'.attempt <= 3
       /\ pc = "pad" => pc' # "pad"
       /\ pc' = "pad" => pc = "copy_request"
       /\ pc = "copy_request" => pc' # "copy_request"
       /\ (pc' = "copy_request" /\ pc # "pad") => cp'.attempt = 1
       /\ (pc = "pad" /\ pc' = "copy_request") => cp'.attempt = cp.attempt + 1
       /\ (pc = "copy_request" /\ pc' \in {"pad", "enforce"}) =>
             /\ cp'.attempt = cp.attempt
             /\ cp'.extra = <<>>
             /\ cp'.variants = Prefix(cp'.primary, target_count)
       /\ (pc = "pad" /\ pc' = "enforce") => cp'.primary = cp.primary
       /\ pc' = "enforce" =>
             cp'.variants = Prefix(cp'.primary \o cp'.extra, target_count)]_vars

\* C27 witness: the first cycle stayed short after padding; the second cycle
\* produced the list out of its own primary and padding reply.
C27_Witness ==
    /\ pc = "enforce"
    /\ cp.attempt = 2
    /\ target_count = 2
    /\ Len(cp.primary) = 1
    /\ Len(cp.extra) >= 1
    /\ cp.variants = <<cp.primary[1], cp.extra[1]>>

\* C29: the error of a persisted run is null while its status is RUNNING or
\* COMPLETE, so it is set only on a FAILED run, where it is the message of
\* the exception the except clause caught, which is the one run ends with.
C29_ErrorOnlyWhenFailed ==
    db_run.exists =>
        /\ db_run.status \in {"RUNNING", "COMPLETE", "FAILED"}
        /\ db_run.error # NULL => db_run.status = "FAILED"
        /\ db_run.status \in {"RUNNING", "COMPLETE"} => db_run.error = NULL
        /\ db_run.status = "FAILED" =>
              /\ db_run.error # NULL
              /\ db_run.error = caught.msg
              /\ exc = caught
              /\ pc \in {"finally", "raised"}

\* C29 witness: an OCR call raised and the run ended with that exception,
\* its message stored on the FAILED run.
C29_Witness ==
    /\ pc = "raised"
    /\ db_run.status = "FAILED"
    /\ caught.site = "extract_text"
    /\ db_run.error = OcrMessage
    /\ exc.msg = OcrMessage

\* C30: an ImageVariant is appended to the list generate_images returns, and
\* the image URL of a variant record is set, only after at least one
\* generate_image call for that package.
C30_GeneratedBeforeReturned ==
    /\ (pc = "variant_begin" /\ Len(img.variants) > 0) => img.gen_calls >= 1
    /\ \A i \in 1..Len(db_variants) :
          (i = img.idx /\ ~IsNone(db_variants[i].image_url)) => img.gen_calls >= 1

\* ------------------------------------------------------------------------
\* Two calls of run on one FlyerPipeline instance (specification SpecShared):
\* the steps of run that write or read self._active_brief
\* ------------------------------------------------------------------------
\* the QC attempts one run makes at most
MaxSharedChecks == 2

SharedRuns == {1, 2}

SharedInit ==
    /\ HarnessInit
    /\ \E b1 \in Briefs : \E b2 \in Briefs :
          enf = [phase |-> "runs",
                 active_brief |-> None,
                 runs |-> [t \in SharedRuns |->
                             [pc |-> "idle", brief |-> IF t = 1 THEN b1 ELSE b2,
                              checks |-> 0, required |-> <<>>]]]

\* run, line 301: self._active_brief = brief
SharedRunStart(t) ==
    /\ enf.runs[t].pc = "idle"
    /\ enf' = [enf EXCEPT !.active_brief = Some(enf.runs[t].brief),
                          !.runs[t].pc = "try"]
    /\ UNCHANGED runVars

\* generate_images, line 277: required = self._required_details(self._active_brief)
SharedQc(t) ==
    /\ enf.runs[t].pc = "try"
    /\ enf.runs[t].checks < MaxSharedChecks
    /\ enf' = [enf EXCEPT !.runs[t].checks = enf.runs[t].checks + 1,
                          !.runs[t].required = required_details(enf.active_brief)]
    /\ UNCHANGED runVars

\* run, lines 338-339: self._active_brief = None
SharedFinally(t) ==
    /\ enf.runs[t].pc = "try"
    /\ enf' = [enf EXCEPT !.active_brief = None, !.runs[t].pc = "returned"]
    /\ UNCHANGED runVars

SharedNext ==
    \/ \E t \in SharedRuns : SharedRunStart(t)
    \/ \E t \in SharedRuns : SharedQc(t)
    \/ \E t \in SharedRuns : SharedFinally(t)

SpecShared == SharedInit /\ [][SharedNext]_vars

\* C15: the required details a run's QC checks are those of the run's own
\* brief, whatever another call of run on the same instance does.
C15_OwnRequiredDetails ==
    enf.phase = "runs" =>
        \A t \in SharedRuns :
            enf.runs[t].checks > 0 =>
                enf.runs[t].required = required_details(Some(enf.runs[t].brief))

\* ------------------------------------------------------------------------
\* qc.validate_text on a list of expected phrases and an OCR text
\* ------------------------------------------------------------------------
MaxOcrLen == 4
MaxPhrases == 2

\* characters of the OCR text: a lower-case letter, an upper-case letter,
\* a blank and a punctuation mark
OcrAlphabet == {"a", "B", " ", "!"}

\* the texts extract_text can return, up to MaxOcrLen characters
OcrTexts == UNION {[1..k -> OcrAlphabet] : k \in 0..MaxOcrLen}

\* expected phrases: one that normalizes to nothing, a word, a phrase with
\* punctuation inside, and two four-letter phrases one letter apart
QcPhrases ==
    {<<"!">>, <<"a", "B">>, <<"a", "!", "B">>,
     <<"a", "B", "a", "B">>, <<"a", "B", "B", "B">>}

\* the lists expected_phrases can be, up to MaxPhrases phrases
QcPhraseLists == UNION {[1..k -> QcPhrases] : k \in 0..MaxPhrases}

ValidateInit ==
    /\ HarnessInit
    /\ \E expected \in QcPhraseLists : \E ocr \in OcrTexts :
          enf = [phase |-> "input", expected |-> expected, ocr |-> ocr, out |-> FALSE]

\* validate_text(expected_phrases, ocr_text)
ValidateText ==
    /\ enf.phase = "input"
    /\ enf' = [enf EXCEPT !.phase = "validated",
                          !.out = validate_text(enf.expected, enf.ocr)]
    /\ UNCHANGED runVars

SpecValidate == ValidateInit /\ [][ValidateText]_vars

\* a phrase is present: its normalized form is part of the normalized OCR
\* text, or the two have a similarity ratio of at least 0.75
Present(phrase, ocr) ==
    \/ IsSubstring(normalize(phrase), normalize(ocr))
    \/ RatioAtLeastThreshold(normalize(phrase), normalize(ocr))

\* C20: validate_text is true exactly when every expected phrase is present;
\* a phrase found verbatim in the OCR text is present, and a phrase that is
\* neither part of the OCR text nor similar to it makes the result false.
C20_PassesIffAllPresent ==
    enf.phase = "validated" =>
        /\ enf.out = (\A i \in 1..Len(enf.expected) : Present(enf.expected[i], enf.ocr))
        /\ \A i \in 1..Len(enf.expected) :
              IsSubstring(enf.expected[i], enf.ocr) => Present(enf.expected[i], enf.ocr)
        /\ (\E i \in 1..Len(enf.expected) :
               /\ ~IsSubstring(normalize(enf.expected[i]), normalize(enf.ocr))
               /\ ~RatioAtLeastThreshold(normalize(enf.expected[i]), normalize(enf.ocr)))
           => ~enf.out

\* C20 witness: two expected phrases pass, one found verbatim in the OCR
\* text and one that is not part of it but similar enough.
C20_Witness ==
    /\ enf.phase = "validated"
    /\ enf.out
    /\ Len(enf.expected) = 2
    /\ IsSubstring(enf.expected[1], enf.ocr)
    /\ Len(normalize(enf.expected[1])) > 0
    /\ ~IsSubstring(normalize(enf.expected[2]), normalize(enf.ocr))
    /\ RatioAtLeastThreshold(normalize(enf.expected[2]), normalize(enf.ocr))

\* ------------------------------------------------------------------------
\* FlyerPipeline._coerce_copy_variants on one parsed value
\* ------------------------------------------------------------------------
\* the parsed values handed to _coerce_copy_variants
CoerceData ==
    ListValues(PrimaryItems)
        \cup {JList(<<Str, Str>>), JEnvelope("variants", <<Str>>),
              JEnvelope("copy_variants", <<Str, Str>>),
              JEnvelope("variants", <<Obj(VA), Str>>)}

\* replies to the request that converts a list of strings
CoerceRepairContents ==
    {Content(kind, v) : kind \in {"json", "fenced"},
                        v \in {JList(<<Obj(VC)>>), JList(<<Obj(VC), Obj(VA)>>),
                               JList(<<>>), JList(<<Str>>), JList(<<BadObj>>),
                               JObject(Obj(VA)), JEnvelope("variants", <<Obj(VC)>>)}}
        \cup {Garbage, NullReply}

CoerceInit ==
    /\ HarnessInit
    /\ \E data \in CoerceData :
          enf = [phase |-> "input", data |-> data, first |-> NoDoc, repaired |-> NoDoc,
                 out |-> Raised("", 0)]

\* _coerce_copy_variants(data), with the replies to the requests it makes
Coerce ==
    /\ enf.phase = "input"
    /\ LET given == [ok |-> TRUE, value |-> enf.data]
       IN \E first \in StringRepairFirst(given, CoerceRepairContents) :
          \E repaired \in StringRepairSecond(given, first, CoerceRepairContents) :
             LET out == coerce_copy_variants(enf.data, first, repaired)
             IN enf' = [enf EXCEPT !.phase = "done",
                                   !.first = IF out.calls > 0 THEN first ELSE NoDoc,
                                   !.repaired = IF out.calls > 1 THEN repaired ELSE NoDoc,
                                   !.out = out]
    /\ UNCHANGED runVars

SpecCoerce == CoerceInit /\ [][Coerce]_vars

\* the value, after an envelope is unwrapped, is a list of objects only
\* (the empty list included) / a non-empty list of strings only
IsObjList(data) == IsListAfterUnwrap(data) /\ AllOf(data.items, {"obj", "badobj"})
IsStrList(data) ==
    IsListAfterUnwrap(data) /\ Len(data.items) > 0 /\ AllOf(data.items, {"str"})

\* the variants of a list of well-formed objects, in order
ValuesOf(items) == [i \in 1..Len(items) |-> items[i].v]

\* C22 as stated: variants come only from a list of objects or a list of
\* strings; a list of objects costs no model call, a list of strings exactly
\* one, and every other shape fails with the unusable-shape error.
C22_OneRepairRequest ==
    enf.phase = "done" =>
        /\ enf.out.ok => IsObjList(enf.data) \/ IsStrList(enf.data)
        /\ IsObjList(enf.data) =>
              /\ enf.out.calls = 0
              /\ enf.out.ok => enf.out.variants = ValuesOf(enf.data.items)
        /\ IsStrList(enf.data) => enf.out.calls = 1
        /\ (~IsObjList(enf.data) /\ ~IsStrList(enf.data)) =>
              ~enf.out.ok /\ enf.out.error = UnusableMessage /\ enf.out.calls = 0

\* C22: as above, but the conversion request of a list of strings goes through
\* chat_json, which asks a second time when the reply does not parse; the
\* value it returns is not coerced again: it yields variants only when it is
\* itself a list of objects, and anything but a list fails with the
\* repair-array error.
C22_CoerceShapes ==
    enf.phase = "done" =>
        /\ enf.out.ok => IsObjList(enf.data) \/ IsStrList(enf.data)
        /\ IsObjList(enf.data) =>
              /\ enf.out.calls = 0
              /\ enf.out.ok => enf.out.variants = ValuesOf(enf.data.items)
        /\ IsStrList(enf.data) =>
              LET r == chat_json(enf.first, enf.repaired)
              IN /\ enf.out.calls \in {1, 2}
                 /\ enf.out.calls = 2 <=> Unparsed(enf.first)
                 /\ enf.out.ok =>
                       /\ r.ok /\ r.value.t = "list"
                       /\ AllOf(r.value.items, {"obj"})
                       /\ enf.out.variants = ValuesOf(r.value.items)
                 /\ (r.ok /\ r.value.t # "list") =>
                       ~enf.out.ok /\ enf.out.error = RepairArrayMessage
        /\ (~IsObjList(enf.data) /\ ~IsStrList(enf.data)) =>
              ~enf.out.ok /\ enf.out.error = UnusableMessage /\ enf.out.calls = 0

\* C22 witness: a list of strings under an envelope was converted with two
\* model calls into two variants.
C22_Witness ==
    /\ enf.phase = "done"
    /\ enf.data.t = "dict"
    /\ IsStrList(enf.data)
    /\ enf.out.ok
    /\ enf.out.calls = 2
    /\ Len(enf.out.variants) = 2

\* ------------------------------------------------------------------------
\* FlyerPipeline._sanitize_brand_style on one style, applied twice
\* ------------------------------------------------------------------------
MaxKeywords == 2
MaxPieces == 3

\* style keywords: a banned token in mixed case, a banned token in lower
\* case, a word that only contains one, a harmless word
SanitizeKeywords ==
    {<<"F", "a", "c", "e">>, <<"h", "a", "n", "d", "s">>,
     <<"f", "a", "c", "e", "t">>, <<"b", "o", "l", "d">>}

\* the pieces between the periods of a layout guidance
LayoutPieces ==
    {<<" ">>, <<"g", "r", "i", "d">>, <<" ", "A", "i", "r", "y", " ">>,
     <<"B", "i", "g", " ", "f", "a", "c", "e">>, <<"H", "U", "M", "A", "N">>}

SanitizeStyles ==
    {BrandStyle(p, k, JoinWith(pieces, <<".">>), t) :
        p \in {<<"red">>},
        k \in UNION {[1..n -> SanitizeKeywords] : n \in 0..MaxKeywords},
        pieces \in UNION {[1..n -> LayoutPieces] : n \in 0..MaxPieces},
        t \in {<<"s", "a", "n", "s">>}}

SanitizeInit ==
    /\ HarnessInit
    /\ \E given \in SanitizeStyles :
          enf = [phase |-> "input", style |-> given, out |-> given, again |-> given]

\* _sanitize_brand_style(style)
Sanitize ==
    /\ enf.phase = "input"
    /\ enf' = [enf EXCEPT !.phase = "once", !.out = sanitize_brand_style(enf.style)]
    /\ UNCHANGED runVars

\* _sanitize_brand_style of the style just returned
SanitizeAgain ==
    /\ enf.phase = "once"
    /\ enf' = [enf EXCEPT !.phase = "twice", !.again = sanitize_brand_style(enf.out)]
    /\ UNCHANGED runVars

SanitizeNext == Sanitize \/ SanitizeAgain

SpecSanitize == SanitizeInit /\ [][SanitizeNext]_vars

\* the sentences of a layout guidance: its non-blank pieces, stripped
SentencesOf(layout) ==
    LET pieces == SplitOnDot(layout, <<>>)
    IN SelectSeq([i \in 1..Len(pieces) |-> strip(pieces[i])], LAMBDA x : Len(x) > 0)

IsBannedKeyword(kw) == lower_text(kw) \in banned_tokens
HasBannedToken(sentence) ==
    \E token \in banned_tokens : IsSubstring(token, lower_text(sentence))

\* the elements of a list that are not dropped, in the order of the list
Surviving(list, Dropped(_)) == SelectSeq(list, LAMBDA x : ~Dropped(x))

\* C23: a sanitized style has no banned keyword and no sentence with a banned
\* token, whatever the case; what survives keeps its order; palette and
\* typography guidance are untouched; sanitizing it again changes nothing.
C23_SanitizedStyle ==
    enf.phase \in {"once", "twice"} =>
        /\ \A i \in 1..Len(enf.out.style_keywords) :
              ~IsBannedKeyword(enf.out.style_keywords[i])
        /\ \A i \in 1..Len(SentencesOf(enf.out.layout_guidance)) :
              ~HasBannedToken(SentencesOf(enf.out.layout_guidance)[i])
        /\ enf.out.style_keywords = Surviving(enf.style.style_keywords, IsBannedKeyword)
        /\ SentencesOf(enf.out.layout_guidance) =
              Surviving(SentencesOf(enf.style.layout_guidance), HasBannedToken)
        /\ enf.out.palette = enf.style.palette
        /\ enf.out.typography_guidance = enf.style.typography_guidance
        /\ enf.phase = "twice" => enf.again = enf.out

\* C23 witness: a keyword and a sentence were dropped, two sentences and a
\* keyword survived, and the second pass returned the same style.
C23_Witness ==
    /\ enf.phase = "twice"
    /\ Len(enf.out.style_keywords) = 1
    /\ Len(enf.style.style_keywords) = 2
    /\ Len(SentencesOf(enf.out.layout_guidance)) = 2
    /\ Len(SentencesOf(enf.style.layout_guidance)) = 3
    /\ enf.out.layout_guidance # enf.style.layout_guidance
    /\ enf.again = enf.out

\* ------------------------------------------------------------------------
\* ComfyFlyerPipeline.generate_copy_variants
\* ------------------------------------------------------------------------
\* the brief fields the fallback variant is built from
ComfyBriefs ==
    {[name |-> <<"j", "o", "e">>, product |-> <<>>, offer |-> <<"2", "4", "1">>,
      cta |-> <<>>],
     [name |-> <<"S", "a", "m">>, product |-> <<"p", "i", "e">>,
      offer |-> <<"h", "a", "l", "f">>, cta |-> <<"g", "o">>]}

\* generate_copy_variants, lines 121-127: fallback
fallback_variant(b) ==
    CopyVariant(IF Len(Prefix(b.product, 36)) > 0 THEN Prefix(b.product, 36) ELSE b.name,
                <<"L", "i", "m", "i", "t", "e", "d", " ", "T", "i", "m", "e", " ",
                  "O", "f", "f", "e", "r">>,
                b.offer \o <<".">>,
                IF Len(b.cta) > 0 THEN b.cta
                ELSE <<"C", "a", "l", "l", " ", "T", "o", "d", "a", "y">>,
                Some(<<"T", "e", "r", "m", "s", " ", "a", "p", "p", "l", "y", ".">>))

\* max(1, variants)
comfy_target(n) == IF n > 1 THEN n ELSE 1

\* ComfyFlyerPipeline.generate_copy_variants, given the replies of its
\* chat_json: the copies returned or the error raised, and the model calls
comfy_generate_copy_variants(b, n, first, repaired) ==
    LET target == comfy_target(n)
        r == chat_json(first, repaired)
    IN IF ~r.ok
       THEN [ok |-> FALSE, copies |-> <<>>, calls |-> r.calls, error |-> r.error]
       ELSE LET dicts == IF r.value.t = "list"
                         THEN SelectSeq(r.value.items, LAMBDA x : x.k \in {"obj", "badobj"})
                         ELSE <<>>
            IN IF \E i \in 1..Len(dicts) : dicts[i].k = "badobj"
               THEN [ok |-> FALSE, copies |-> <<>>, calls |-> r.calls,
                     error |-> ValidationMessage]
               ELSE LET copies == [i \in 1..Len(dicts) |-> dicts[i].v]
                    IN [ok |-> TRUE,
                        copies |-> IF Len(copies) >= target THEN Prefix(copies, target)
                                   ELSE copies \o [i \in 1..(target - Len(copies)) |->
                                                      fallback_variant(b)],
                        calls |-> r.calls, error |-> ""]

ComfyCopyInit ==
    /\ HarnessInit
    /\ \E b \in ComfyBriefs : \E n \in 0..MaxVariants :
          enf = [phase |-> "input", brief |-> b, variants |-> n, first |-> NoDoc,
                 repaired |-> NoDoc,
                 out |-> [ok |-> FALSE, copies |-> <<>>, calls |-> 0, error |-> ""]]

\* generate_copy_variants(brief, style, variants) with the replies it gets
ComfyCopy ==
    /\ enf.phase = "input"
    /\ \E first \in CopyContents : \E repaired \in RepairReplies(first, CopyContents) :
          LET out == comfy_generate_copy_variants(enf.brief, enf.variants, first, repaired)
          IN enf' = [enf EXCEPT !.phase = "done", !.first = first,
                                !.repaired = IF out.calls > 1 THEN repaired ELSE NoDoc,
                                !.out = out]
    /\ UNCHANGED runVars

SpecComfyCopy == ComfyCopyInit /\ [][ComfyCopy]_vars

\* C26: generate_copy_variants always returns exactly max(1, variants)
\* copies.
C26_AlwaysTargetCopies ==
    enf.phase = "done" =>
        enf.out.ok /\ Len(enf.out.copies) = comfy_target(enf.variants)

====
